---- MODULE Spec2Model ----
(***************************************************************************)
(* Model of the result-parsing and fatigue-scoring pipeline of the         *)
(* CogniFocus application: parseResultData, calculateEyeStats,             *)
(* determineFatigueLevel, processAndSaveAnalysis (services/                *)
(* analysisService.ts), processEyeTestResult (services/eyeTestService.ts)  *)
(* and the store helpers saveAnalysisResult / saveEyeTestResult.           *)
(*                                                                         *)
(* Text is a sequence of one-character strings.  Diameters are exact       *)
(* numbers counted in hundredths of a millimetre (2.31 mm is 231); means   *)
(* and variances are exact fractions [n, d] in lowest terms.  Rounding of  *)
(* IEEE doubles is not modelled.                                           *)
(***************************************************************************)
EXTENDS Integers, Sequences, FiniteSets, TLC

VARIABLES
    report,            \* the lines of the report the analysis service returned
    resultText,        \* the text handed to parseResultData or to the pipeline
    lines,             \* parseResultData: the non-blank lines
    idx,               \* parseResultData: index of the next line of the loop
    pupilData,         \* parseResultData: samples pushed so far
    summary,           \* parseResultData: summary buffer
    inSummarySection,  \* parseResultData: flag
    inCSVSection,      \* parseResultData: flag
    ppc,               \* parseResultData: "off", "start", "loop" or "done"
    statData,          \* calculateEyeStats: the samples
    statEye,           \* calculateEyeStats: the eye asked for
    statResult,        \* calculateEyeStats: the value returned
    spc,               \* calculateEyeStats: "off", "start" or "done"
    argLeftStats,      \* determineFatigueLevel: first argument
    argRightStats,     \* determineFatigueLevel: second argument
    level,             \* determineFatigueLevel: the value returned
    cpc,               \* determineFatigueLevel: "off", "start" or "done"
    entry,             \* pipeline: the function called, "analysis" or "eyeTest"
    pc,                \* pipeline: position of the call
    resultTextIn,      \* pipeline: the resultText argument, a text or not
    settingsIn,        \* pipeline: the settings argument
    analysisUrlIn,     \* pipeline: the analysisUrl argument
    metadataIn,        \* pipeline: the metadata argument
    analysisRec,       \* processAndSaveAnalysis: analysisData
    eyeTestRec,        \* processEyeTestResult: eyeTestData
    saveResult,        \* processAndSaveAnalysis: what saveAnalysisResult returned
    eyeTestResult,     \* what processEyeTestResult returned
    result,            \* what the called function returned
    analyses,          \* store: users/{uid}/analyses, key -> record
    eyeTests,          \* store: eye-test/{uid}, key -> record
    setCalls,          \* store: number of set() calls issued on each path
    now,               \* Date.now()
    chartAnalyses,     \* CognitiveMetricsChart: the prop analyses
    today,             \* CognitiveMetricsChart: the date of the day
    todayAnalyses,     \* CognitiveMetricsChart: the records of today, sorted
    trendData,         \* generateConclusions: the argument data
    conclusion,        \* generateConclusions: the value returned
    tpc,               \* CognitiveMetricsChart: position of the render
    blinkData,         \* calculateBlinkStats: the argument pupilData
    blinkDuration,     \* calculateBlinkStats: the argument testDuration
    blinkStats,        \* calculateBlinkStats: the value returned
    bpc,               \* calculateBlinkStats: "off", "start" or "done"
    rtLevel,           \* generateMockReactionTime: the argument fatigueLevel
    rtAvgPupilSize,    \* generateMockReactionTime: the argument avgPupilSize
    rtRandom,          \* generateMockReactionTime: the value of Math.random()
    rtAnalysis,        \* what generateMockReactionTime of analysisService returned
    rtEyeTest,         \* what generateMockReactionTime of eyeTestService returned
    readCall,          \* store readers: the reader called and its arguments
    readGot,           \* store readers: what get() answered
    readAnswer,        \* store readers: what the reader returned
    dashAnalyses,      \* DashboardScreen: the state analyses
    dashEyeTests,      \* DashboardScreen: the state eyeTests
    todayCount,        \* DashboardScreen: state
    weekCount,         \* DashboardScreen: state
    eyeTestTodayCount, \* DashboardScreen: state
    eyeTestWeekCount,  \* DashboardScreen: state
    lastAnalysis,      \* DashboardScreen: state
    lastEyeTest,       \* DashboardScreen: state
    deliveredAnalyses, \* subscribeToAnalysisUpdates: the deliveries, the last one kept
    deliveredEyeTests, \* subscribeToEyeTestUpdates: the deliveries, the last one kept
    handled,           \* DashboardScreen: the handler that ran last
    allAnalyses,       \* loadAnalyses: the local allAnalyses
    lpc,               \* loadAnalyses: "off", "idle" or "getUserEyeTests"
    gpEntry,           \* generatePupilAnalysis: the function called
    gpData,            \* generatePupilAnalysis: request.data
    gpCalls,           \* generatePupilAnalysis: the calls of client.predict made so far
    gpNext,            \* simulateGeneratePupilAnalysis: index of the endpoint of the loop
    gpResponse,        \* generatePupilAnalysis: the local result
    gpWorkingEndpoint, \* generatePupilAnalysis: the local workingEndpoint
    gpReturn,          \* generatePupilAnalysis: the value returned
    gpc                \* generatePupilAnalysis: "off", "start", "predict", "finish" or "done"

parserVars == <<report, resultText, lines, idx, pupilData, summary,
                inSummarySection, inCSVSection, ppc>>

statsVars == <<statData, statEye, statResult, spc>>

classifyVars == <<argLeftStats, argRightStats, level, cpc>>

callVars == <<entry, pc, resultTextIn, settingsIn, analysisUrlIn, metadataIn, analysisRec,
              eyeTestRec, saveResult,
              eyeTestResult, result>>

storeVars == <<analyses, eyeTests, setCalls, now>>

pipelineVars == <<callVars, storeVars>>

trendVars == <<chartAnalyses, today, todayAnalyses, trendData, conclusion, tpc>>

\* The variables of the pipeline and of its functions
coreVars == <<parserVars, statsVars, classifyVars, pipelineVars>>

blinkVars == <<blinkData, blinkDuration, blinkStats, bpc>>

reactionVars == <<rtLevel, rtAvgPupilSize, rtRandom, rtAnalysis, rtEyeTest>>

readerVars == <<readCall, readGot, readAnswer>>

dashboardVars == <<dashAnalyses, dashEyeTests, todayCount, weekCount, eyeTestTodayCount, eyeTestWeekCount, lastAnalysis, lastEyeTest, deliveredAnalyses, deliveredEyeTests, handled, allAnalyses, lpc>>

pupilVars == <<gpEntry, gpData, gpCalls, gpNext, gpResponse, gpWorkingEndpoint, gpReturn, gpc>>

\* The variables of the consumers of the records and of the derived metrics
laterVars == <<trendVars, blinkVars, reactionVars, readerVars, dashboardVars, pupilVars>>

besidesTrend == <<coreVars, blinkVars, reactionVars, readerVars, dashboardVars, pupilVars>>
besidesBlink == <<coreVars, trendVars, reactionVars, readerVars, dashboardVars, pupilVars>>
besidesReaction == <<coreVars, trendVars, blinkVars, readerVars, dashboardVars, pupilVars>>
besidesReader == <<coreVars, trendVars, blinkVars, reactionVars, dashboardVars, pupilVars>>
besidesDashboard == <<coreVars, trendVars, blinkVars, reactionVars, readerVars, pupilVars>>
besidesPupil == <<coreVars, trendVars, blinkVars, reactionVars, readerVars, dashboardVars>>

vars == <<coreVars, laterVars>>

----------------------------------------------------------------------------
(* Bounds *)

MaxLines == 3
MaxSamples == 4
MaxReportLines == 2
MaxClock == 1
MaxBlinkSamples == 3

----------------------------------------------------------------------------
(* Characters and strings *)

Digits == {"0", "1", "2", "3", "4", "5", "6", "7", "8", "9"}

DigitVal(c) ==
    CASE c = "0" -> 0 [] c = "1" -> 1 [] c = "2" -> 2 [] c = "3" -> 3
      [] c = "4" -> 4 [] c = "5" -> 5 [] c = "6" -> 6 [] c = "7" -> 7
      [] c = "8" -> 8 [] c = "9" -> 9

\* White space removed by String.prototype.trim and skipped by parseInt /
\* parseFloat.
IsWs(c) == c \in {" ", "\t", "\r", "\n"}

RECURSIVE TrimLeft(_)
TrimLeft(s) ==
    IF s = <<>> \/ ~IsWs(Head(s)) THEN s ELSE TrimLeft(Tail(s))

RECURSIVE TrimRight(_)
TrimRight(s) ==
    IF s = <<>> \/ ~IsWs(s[Len(s)]) THEN s
    ELSE TrimRight(SubSeq(s, 1, Len(s) - 1))

\* String.prototype.trim
Trim(s) == TrimRight(TrimLeft(s))

\* String.prototype.includes, for a non-empty needle
Includes(s, sub) ==
    \E i \in 1..(Len(s) - Len(sub) + 1) : SubSeq(s, i, i + Len(sub) - 1) = sub

\* Index of the first occurrence of the character c in s, 0 when absent
IndexOf(s, c) ==
    IF \E i \in 1..Len(s) : s[i] = c
    THEN CHOOSE i \in 1..Len(s) : s[i] = c /\ \A j \in 1..(i - 1) : s[j] # c
    ELSE 0

\* String.prototype.split on a one-character separator
RECURSIVE Split(_, _)
Split(s, c) ==
    LET i == IndexOf(s, c)
    IN  IF i = 0 THEN <<s>>
        ELSE <<SubSeq(s, 1, i - 1)>> \o Split(SubSeq(s, i + 1, Len(s)), c)

\* The longest prefix of s made of decimal digits
RECURSIVE DigitPrefix(_)
DigitPrefix(s) ==
    IF s = <<>> \/ Head(s) \notin Digits THEN <<>>
    ELSE <<Head(s)>> \o DigitPrefix(Tail(s))

\* The value of a sequence of decimal digits
RECURSIVE DigitsValue(_)
DigitsValue(ds) ==
    IF ds = <<>> THEN 0
    ELSE 10 * DigitsValue(SubSeq(ds, 1, Len(ds) - 1)) + DigitVal(ds[Len(ds)])

----------------------------------------------------------------------------
(* Numbers as JavaScript produces them: a value or NaN *)

NaN == [nan |-> TRUE, v |-> 0]
Num(x) == [nan |-> FALSE, v |-> x]
isNaN(x) == x.nan

\* parseInt(s) with the default radix, on decimal input: leading white
\* space is skipped, a sign is read, then the longest run of digits; what
\* follows the digits is ignored; no digit at all gives NaN.
ParseInt(s) ==
    LET t    == TrimLeft(s)
        neg  == t # <<>> /\ Head(t) = "-"
        body == IF t # <<>> /\ Head(t) \in {"-", "+"} THEN Tail(t) ELSE t
        ds   == DigitPrefix(body)
    IN  IF ds = <<>> THEN NaN
        ELSE Num(IF neg THEN 0 - DigitsValue(ds) ELSE DigitsValue(ds))

\* What stands for the number Infinity among the hundredths: it is above
\* every diameter a text of the model writes in digits
Infinity == 2147483647

sInfinity == <<"I", "n", "f", "i", "n", "i", "t", "y">>

\* String.prototype.startsWith
StartsWith(s, prefix) ==
    IF Len(s) < Len(prefix) THEN FALSE ELSE SubSeq(s, 1, Len(prefix)) = prefix

\* parseFloat(s) on decimal input without exponent: leading white space is
\* skipped, a sign is read, then Infinity, or digits, optionally a point and
\* digits; what follows is ignored; no digit at all gives NaN.  The value is
\* returned in hundredths, so the input carries at most two fraction digits.
ParseFloat(s) ==
    LET t     == TrimLeft(s)
        neg   == t # <<>> /\ Head(t) = "-"
        body  == IF t # <<>> /\ Head(t) \in {"-", "+"} THEN Tail(t) ELSE t
        ip    == DigitPrefix(body)
        rest  == SubSeq(body, Len(ip) + 1, Len(body))
        fp    == IF rest # <<>> /\ Head(rest) = "." THEN DigitPrefix(Tail(rest))
                 ELSE <<>>
        fp2   == IF Len(fp) = 0 THEN <<"0", "0">>
                 ELSE IF Len(fp) = 1 THEN fp \o <<"0">>
                 ELSE SubSeq(fp, 1, 2)
        mag   == IF StartsWith(body, sInfinity) THEN Infinity
                 ELSE 100 * DigitsValue(ip) + DigitsValue(fp2)
    IN  IF ip = <<>> /\ fp = <<>> /\ mag # Infinity THEN NaN
        ELSE Num(IF neg THEN 0 - mag ELSE mag)

----------------------------------------------------------------------------
(* The words parseResultData looks for *)

sProcessed == <<"P", "r", "o", "c", "e", "s", "s", "e", "d">>
sFrames    == <<"f", "r", "a", "m", "e", "s">>
sCsvMarker == <<"-", "-", "-", " ", "C", "S", "V", " ", "D", "a", "t", "a",
                " ", "-", "-", "-">>
sCsvHeader == <<"F", "r", "a", "m", "e", ",", "E", "y", "e", "_", "T", "y",
                "p", "e", ",", "D", "i", "a", "m", "e", "t", "e", "r", "_",
                "m", "m">>
sEyeColon  == <<"E", "y", "e", ":">>
sMeanColon == <<"M", "e", "a", "n", ":">>
sStdColon  == <<"S", "t", "d", ":">>
sMinColon  == <<"M", "i", "n", ":">>
sMaxColon  == <<"M", "a", "x", ":">>
left_eye   == <<"l", "e", "f", "t", "_", "e", "y", "e">>
right_eye  == <<"r", "i", "g", "h", "t", "_", "e", "y", "e">>
sLeft      == <<"l", "e", "f", "t">>
sLeftCap   == <<"L", "e", "f", "t">>
sRight     == <<"r", "i", "g", "h", "t">>
sRightCap  == <<"R", "i", "g", "h", "t">>

----------------------------------------------------------------------------
(* parseResultData, services/analysisService.ts *)

\* NormalizeEye without the capitalised spellings
NormalizeEye_NoCapital(eye) ==
    IF eye = left_eye \/ eye = right_eye THEN eye
    ELSE IF eye = sLeft THEN left_eye
    ELSE IF eye = sRight THEN right_eye
    ELSE eye

\* The eye label after the "different eye format variations" chain
NormalizeEye(eye) ==
    IF eye = left_eye \/ eye = right_eye THEN eye
    ELSE IF eye = sLeft \/ eye = sLeftCap THEN left_eye
    ELSE IF eye = sRight \/ eye = sRightCap THEN right_eye
    ELSE eye

\* A row block that keeps one sample for each frame of an eye
ParseRow_Dedup(data, trimmedLine) ==
    LET parts == Split(trimmedLine, ",")
    IN  IF Len(parts) >= 3
        THEN LET frame    == ParseInt(parts[1])
                 eye      == NormalizeEye(Trim(parts[2]))
                 diameter == ParseFloat(parts[3])
             IN  IF ~isNaN(frame) /\ ~isNaN(diameter)
                    /\ (eye = left_eye \/ eye = right_eye)
                    /\ \A i \in 1..Len(data) :
                           ~(data[i].frame = frame.v /\ data[i].eye = eye)
                 THEN Append(data, [frame |-> frame.v, eye |-> eye,
                                    diameter |-> diameter.v])
                 ELSE data
        ELSE data

\* The "Parse CSV data or direct frame data" block: the samples after a line
\* that contains a comma
ParseRow(data, trimmedLine) ==
    LET parts == Split(trimmedLine, ",")
    IN  IF Len(parts) >= 3
        THEN LET frame    == ParseInt(parts[1])
                 eye      == NormalizeEye(Trim(parts[2]))
                 diameter == ParseFloat(parts[3])
             IN  IF ~isNaN(frame) /\ ~isNaN(diameter)
                    /\ (eye = left_eye \/ eye = right_eye)
                 THEN Append(data, [frame |-> frame.v, eye |-> eye,
                                    diameter |-> diameter.v])
                 ELSE data
        ELSE data

IsSummaryLine(trimmedLine) ==
    \/ Includes(trimmedLine, sEyeColon)
    \/ Includes(trimmedLine, sMeanColon)
    \/ Includes(trimmedLine, sStdColon)
    \/ Includes(trimmedLine, sMinColon)
    \/ Includes(trimmedLine, sMaxColon)

\* An iteration whose summary block does not end with continue: a line of
\* the summary section is also looked at as a data row
ParseLine_NoContinue(st, line) ==
    LET trimmedLine == Trim(line)
        kept == IF st.inSummarySection /\ ~st.inCSVSection
                   /\ IsSummaryLine(trimmedLine)
                THEN [st EXCEPT !.summary = @ \o trimmedLine \o <<"\n">>]
                ELSE st
    IN  IF Includes(trimmedLine, sProcessed) /\ Includes(trimmedLine, sFrames)
        THEN [st EXCEPT !.inSummarySection = TRUE,
                        !.summary = @ \o trimmedLine \o <<"\n">>]
        ELSE IF trimmedLine = sCsvMarker
        THEN [st EXCEPT !.inCSVSection = TRUE]
        ELSE IF trimmedLine = sCsvHeader
        THEN st
        ELSE IF Includes(trimmedLine, <<",">>)
        THEN [kept EXCEPT !.pupilData = ParseRow(@, trimmedLine)]
        ELSE kept

\* An iteration whose summary block looks at inSummarySection alone
ParseLine_OneFlag(st, line) ==
    LET trimmedLine == Trim(line)
    IN  IF Includes(trimmedLine, sProcessed) /\ Includes(trimmedLine, sFrames)
        THEN [st EXCEPT !.inSummarySection = TRUE,
                        !.summary = @ \o trimmedLine \o <<"\n">>]
        ELSE IF trimmedLine = sCsvMarker
        THEN [st EXCEPT !.inCSVSection = TRUE]
        ELSE IF trimmedLine = sCsvHeader
        THEN st
        ELSE IF st.inSummarySection
        THEN IF IsSummaryLine(trimmedLine)
             THEN [st EXCEPT !.summary = @ \o trimmedLine \o <<"\n">>]
             ELSE st
        ELSE IF Includes(trimmedLine, <<",">>)
        THEN [st EXCEPT !.pupilData = ParseRow(@, trimmedLine)]
        ELSE st

\* One iteration of the for loop over the lines.  st is the record of the
\* loop's variables: pupilData, summary, inSummarySection, inCSVSection.
ParseLine(st, line) ==
    LET trimmedLine == Trim(line)
    IN  IF Includes(trimmedLine, sProcessed) /\ Includes(trimmedLine, sFrames)
        THEN [st EXCEPT !.inSummarySection = TRUE,
                        !.summary = @ \o trimmedLine \o <<"\n">>]
        ELSE IF trimmedLine = sCsvMarker
        THEN [st EXCEPT !.inCSVSection = TRUE]
        ELSE IF trimmedLine = sCsvHeader
        THEN st
        ELSE IF st.inSummarySection /\ ~st.inCSVSection
        THEN IF IsSummaryLine(trimmedLine)
             THEN [st EXCEPT !.summary = @ \o trimmedLine \o <<"\n">>]
             ELSE st
        ELSE IF Includes(trimmedLine, <<",">>)
        THEN [st EXCEPT !.pupilData = ParseRow(@, trimmedLine)]
        ELSE st

\* resultText.split('\n').filter(line => line.trim())
SplitLines(text) ==
    SelectSeq(Split(text, "\n"), LAMBDA line : Trim(line) # <<>>)

ParseStart == [pupilData |-> <<>>, summary |-> <<>>,
               inSummarySection |-> FALSE, inCSVSection |-> FALSE]

\* The loop of lines 48-101: the state after each line is computed before
\* the next line is looked at
RECURSIVE ParseLines(_, _)
ParseLines(st, ls) ==
    IF ls = <<>> THEN st
    ELSE CHOOSE final \in { ParseLines(next, Tail(ls)) :
                                next \in {ParseLine(st, Head(ls))} } : TRUE

\* The whole function: { pupilData, summary: summary.trim() }
parseResultData(text) ==
    LET st == ParseLines(ParseStart, SplitLines(text))
    IN  [pupilData |-> st.pupilData, summary |-> Trim(st.summary)]

----------------------------------------------------------------------------
(* Exact arithmetic on fractions [n, d] with d > 0, in lowest terms *)

Abs(x) == IF x < 0 THEN 0 - x ELSE x

RECURSIVE GCD(_, _)
GCD(a, b) == IF b = 0 THEN a ELSE GCD(b, a % b)

Frac(n, d) ==
    LET g == GCD(Abs(n), d)
    IN  [n |-> n \div g, d |-> d \div g]

RInt(k) == [n |-> k, d |-> 1]
RAdd(a, b) == Frac(a.n * b.d + b.n * a.d, a.d * b.d)
RSub(a, b) == Frac(a.n * b.d - b.n * a.d, a.d * b.d)
RMul(a, b) == Frac(a.n * b.n, a.d * b.d)
\* a / k for an integer k > 0
RDivInt(a, k) == Frac(a.n, a.d * k)
RLt(a, b) == a.n * b.d < b.n * a.d
RLe(a, b) == a.n * b.d <= b.n * a.d

\* Math.sqrt(x) of a non-negative x, kept as the root of its radicand
Sqrt(x) == [sqrtOf |-> x]

\* The value undefined
undefined == [undefined |-> TRUE]

\* The value null
null == [null |-> TRUE]

\* An optional value that is given
Given(v) == [value |-> v]

----------------------------------------------------------------------------
(* calculateEyeStats, services/analysisService.ts *)

\* data.filter(d => d.eye === eye).map(d => d.diameter)
RECURSIVE EyeDiameters_NoFilter(_, _)
EyeDiameters_NoFilter(data, eye) ==
    IF data = <<>> THEN <<>>
    ELSE <<Head(data).diameter>> \o EyeDiameters_NoFilter(Tail(data), eye)

RECURSIVE EyeDiameters(_, _)
EyeDiameters(data, eye) ==
    IF data = <<>> THEN <<>>
    ELSE IF Head(data).eye = eye
         THEN <<Head(data).diameter>> \o EyeDiameters(Tail(data), eye)
         ELSE EyeDiameters(Tail(data), eye)

\* eyeData.reduce((sum, val) => sum + val, 0)
RECURSIVE SumSeq(_)
SumSeq(xs) == IF xs = <<>> THEN 0 ELSE Head(xs) + SumSeq(Tail(xs))

\* eyeData.reduce((sum, val) => sum + Math.pow(val - mean, 2), 0)
RECURSIVE SumSqDev(_, _)
SumSqDev(xs, mean) ==
    IF xs = <<>> THEN RInt(0)
    ELSE LET dev == RSub(RInt(Head(xs)), mean)
         IN  RAdd(RMul(dev, dev), SumSqDev(Tail(xs), mean))

\* The variance with Bessel's correction
Variance_Bessel(xs, mean) ==
    IF Len(xs) > 1 THEN RDivInt(SumSqDev(xs, mean), Len(xs) - 1) ELSE RInt(0)

\* Line 120: the sum of squared deviations divided by eyeData.length
Variance(xs, mean) == RDivInt(SumSqDev(xs, mean), Len(xs))

\* Math.min(...xs) and Math.max(...xs) of a non-empty array
MinOf(xs) == CHOOSE m \in {xs[i] : i \in 1..Len(xs)} :
                 \A i \in 1..Len(xs) : m <= xs[i]
MaxOf(xs) == CHOOSE m \in {xs[i] : i \in 1..Len(xs)} :
                 \A i \in 1..Len(xs) : m >= xs[i]

ZeroStats == [mean |-> RInt(0), std |-> Sqrt(RInt(0)),
              min |-> RInt(0), max |-> RInt(0)]

calculateEyeStats(data, eye) ==
    LET eyeData == EyeDiameters(data, eye)
    IN  IF Len(eyeData) = 0 THEN ZeroStats
        ELSE LET mean == RDivInt(RInt(SumSeq(eyeData)), Len(eyeData))
             IN  [mean |-> mean,
                  std  |-> Sqrt(Variance(eyeData, mean)),
                  min  |-> RInt(MinOf(eyeData)),
                  max  |-> RInt(MaxOf(eyeData))]

----------------------------------------------------------------------------
(* determineFatigueLevel *)

\* The thresholds 2.2 and 2.6, in hundredths
FatigueHighBelow == 220
FatigueLowAbove == 260

\* The two thresholds taken one for the other
LevelOfAverage_SwappedThresholds(avgPupilSize) ==
    IF RLt(avgPupilSize, RInt(FatigueLowAbove)) THEN "high"
    ELSE IF RLt(RInt(FatigueHighBelow), avgPupilSize) THEN "low"
    ELSE "moderate"

\* Lines 151-157: the level of an average pupil size
LevelOfAverage(avgPupilSize) ==
    IF RLt(avgPupilSize, RInt(FatigueHighBelow)) THEN "high"
    ELSE IF RLt(RInt(FatigueLowAbove), avgPupilSize) THEN "low"
    ELSE "moderate"

\* services/analysisService.ts, lines 131-158
determineFatigueLevel(leftStats, rightStats) ==
    IF leftStats = undefined /\ rightStats = undefined THEN "moderate"
    ELSE LET sum   == RAdd(IF leftStats # undefined THEN leftStats.mean
                           ELSE RInt(0),
                           IF rightStats # undefined THEN rightStats.mean
                           ELSE RInt(0))
             count == (IF leftStats # undefined THEN 1 ELSE 0)
                      + (IF rightStats # undefined THEN 1 ELSE 0)
         IN  LevelOfAverage(RDivInt(sum, count))

\* The function of the same name in test-sample-data.js, lines 121-148
determineFatigueLevelRef(leftStats, rightStats) ==
    IF leftStats = undefined /\ rightStats = undefined THEN "moderate"
    ELSE LET useL  == leftStats # undefined /\ RLt(RInt(0), leftStats.mean)
             useR  == rightStats # undefined /\ RLt(RInt(0), rightStats.mean)
             sum   == RAdd(IF useL THEN leftStats.mean ELSE RInt(0),
                           IF useR THEN rightStats.mean ELSE RInt(0))
             count == (IF useL THEN 1 ELSE 0) + (IF useR THEN 1 ELSE 0)
         IN  IF count = 0 THEN "moderate"
             ELSE LevelOfAverage(RDivInt(sum, count))

----------------------------------------------------------------------------
(* Reports: the text the analysis service returns, built from lines *)

DigitChar(n) ==
    CASE n = 0 -> "0" [] n = 1 -> "1" [] n = 2 -> "2" [] n = 3 -> "3"
      [] n = 4 -> "4" [] n = 5 -> "5" [] n = 6 -> "6" [] n = 7 -> "7"
      [] n = 8 -> "8" [] n = 9 -> "9"

\* The decimal numeral of a natural number
RECURSIVE FormatInt(_)
FormatInt(n) ==
    IF n < 10 THEN <<DigitChar(n)>>
    ELSE FormatInt(n \div 10) \o <<DigitChar(n % 10)>>

\* A diameter of d hundredths written with two fraction digits, as 2.31
FormatDiameter(d) ==
    FormatInt(d \div 100) \o <<".">>
        \o <<DigitChar((d % 100) \div 10), DigitChar(d % 10)>>

\* The line "frame,eye,diameter"
Row(frame, label, d) ==
    FormatInt(frame) \o <<",">> \o label \o <<",">> \o FormatDiameter(d)

EyeLabels == {left_eye, right_eye, sLeft, sLeftCap, sRight, sRightCap}

\* The rows of the well-formed lines of the pool
WellFormedTriples ==
    { [frame |-> 0,  label |-> left_eye,  diameter |-> 231],
      [frame |-> 1,  label |-> right_eye, diameter |-> 228],
      [frame |-> 12, label |-> sLeft,     diameter |-> 5],
      [frame |-> 3,  label |-> sLeftCap,  diameter |-> 300],
      [frame |-> 7,  label |-> sRight,    diameter |-> 219],
      [frame |-> 5,  label |-> sRightCap, diameter |-> 261] }

WellFormedRows == { Row(t.frame, t.label, t.diameter) : t \in WellFormedTriples }

\* "abc,left_eye,2.3": the frame is not a number
rowBadFrame == <<"a", "b", "c", ",">> \o left_eye \o <<",", "2", ".", "3">>
\* "1,top_eye,2.3": the eye label is not recognized
rowBadEye == <<"1", ",", "t", "o", "p", "_", "e", "y", "e", ",", "2", ".", "3">>
\* "1,left_eye,abc": the diameter is not a number
rowBadDiameter == <<"1", ",">> \o left_eye \o <<",", "a", "b", "c">>
\* "1,left_eye": fewer than three fields
rowTwoFields == <<"1", ",">> \o left_eye
\* "7x,left_eye,2.31": the frame is not a number, but starts with a digit
rowDigitPrefixFrame == <<"7", "x", ",">> \o left_eye \o <<",", "2", ".", "3", "1">>

MalformedRows == {rowBadFrame, rowBadEye, rowBadDiameter, rowTwoFields,
                  rowDigitPrefixFrame}

\* "Processed 255 frames"
lineProcessed == sProcessed \o <<" ", "2", "5", "5", " ">> \o sFrames
\* "  Mean: 2.40 mm"
lineMean == <<" ", " ">> \o sMeanColon \o <<" ", "2", ".", "4", "0", " ", "m", "m">>
\* A line of white space
lineBlank == <<" ", " ">>

LinePool ==
    WellFormedRows \cup MalformedRows
        \cup {lineProcessed, sCsvMarker, sCsvHeader, lineMean, lineBlank}

\* The sequences of at most n elements of S
SeqsUpTo(S, n) == UNION { [1..k -> S] : k \in 0..n }

\* The lines joined by "\n"
RECURSIVE JoinLines(_)
JoinLines(ls) ==
    IF ls = <<>> THEN <<>>
    ELSE IF Len(ls) = 1 THEN ls[1]
    ELSE ls[1] \o <<"\n">> \o JoinLines(Tail(ls))

----------------------------------------------------------------------------
(* parseResultData run line by line *)

ParserOff ==
    /\ report = <<>>
    /\ resultText = <<>>
    /\ lines = <<>>
    /\ idx = 0
    /\ pupilData = <<>>
    /\ summary = <<>>
    /\ inSummarySection = FALSE
    /\ inCSVSection = FALSE
    /\ ppc = "off"

StatsOff ==
    /\ statData = <<>>
    /\ statEye = left_eye
    /\ statResult = undefined
    /\ spc = "off"

ClassifyOff ==
    /\ argLeftStats = undefined
    /\ argRightStats = undefined
    /\ level = undefined
    /\ cpc = "off"

PipelineOff ==
    /\ entry = "none"
    /\ pc = "off"
    /\ resultTextIn = undefined
    /\ settingsIn = undefined
    /\ analysisUrlIn = undefined
    /\ metadataIn = undefined
    /\ analysisRec = undefined
    /\ eyeTestRec = undefined
    /\ saveResult = undefined
    /\ eyeTestResult = undefined
    /\ result = undefined
    /\ analyses = <<>>
    /\ eyeTests = <<>>
    /\ setCalls = [analyses |-> 0, eyeTests |-> 0]
    /\ now = 0

TrendOff ==
    /\ chartAnalyses = <<>>
    /\ today = "none"
    /\ todayAnalyses = <<>>
    /\ trendData = <<>>
    /\ conclusion = undefined
    /\ tpc = "off"

BlinkOff ==
    /\ blinkData = <<>>
    /\ blinkDuration = 0
    /\ blinkStats = undefined
    /\ bpc = "off"

ReactionOff ==
    /\ rtLevel = "none"
    /\ rtAvgPupilSize = undefined
    /\ rtRandom = undefined
    /\ rtAnalysis = undefined
    /\ rtEyeTest = undefined

ReaderOff ==
    /\ readCall = [fn |-> "none"]
    /\ readGot = undefined
    /\ readAnswer = undefined

DashboardOff ==
    /\ dashAnalyses = <<>>
    /\ dashEyeTests = <<>>
    /\ todayCount = 0
    /\ weekCount = 0
    /\ eyeTestTodayCount = 0
    /\ eyeTestWeekCount = 0
    /\ lastAnalysis = undefined
    /\ lastEyeTest = undefined
    /\ deliveredAnalyses = <<>>
    /\ deliveredEyeTests = <<>>
    /\ handled = "none"
    /\ allAnalyses = <<>>
    /\ lpc = "off"

PupilOff ==
    /\ gpEntry = "none"
    /\ gpData = undefined
    /\ gpCalls = <<>>
    /\ gpNext = 0
    /\ gpResponse = undefined
    /\ gpWorkingEndpoint = undefined
    /\ gpReturn = undefined
    /\ gpc = "off"

\* The consumers of the records are not running
LaterOff == TrendOff /\ BlinkOff /\ ReactionOff /\ ReaderOff /\ DashboardOff /\ PupilOff

InitParse ==
    /\ LaterOff
    /\ StatsOff
    /\ ClassifyOff
    /\ PipelineOff
    /\ report \in SeqsUpTo(LinePool, MaxLines)
    /\ resultText = JoinLines(report)
    /\ lines = <<>>
    /\ idx = 0
    /\ pupilData = <<>>
    /\ summary = <<>>
    /\ inSummarySection = FALSE
    /\ inCSVSection = FALSE
    /\ ppc = "start"

\* Lines 40-44: split the text, initialise the loop variables
ParseBegin ==
    /\ ppc = "start"
    /\ lines' = SplitLines(resultText)
    /\ idx' = 1
    /\ pupilData' = ParseStart.pupilData
    /\ summary' = ParseStart.summary
    /\ inSummarySection' = ParseStart.inSummarySection
    /\ inCSVSection' = ParseStart.inCSVSection
    /\ ppc' = "loop"
    /\ UNCHANGED <<report, resultText, statsVars, classifyVars, pipelineVars,
                   laterVars>>

\* Lines 48-101: one iteration of the loop
ParseStep ==
    /\ ppc = "loop"
    /\ idx <= Len(lines)
    /\ LET st == ParseLine([pupilData |-> pupilData, summary |-> summary,
                            inSummarySection |-> inSummarySection,
                            inCSVSection |-> inCSVSection], lines[idx])
       IN  /\ pupilData' = st.pupilData
           /\ summary' = st.summary
           /\ inSummarySection' = st.inSummarySection
           /\ inCSVSection' = st.inCSVSection
    /\ idx' = idx + 1
    /\ UNCHANGED <<report, resultText, lines, ppc, statsVars, classifyVars, pipelineVars,
                   laterVars>>

\* Line 106: return { pupilData, summary: summary.trim() }
ParseReturn ==
    /\ ppc = "loop"
    /\ idx > Len(lines)
    /\ summary' = Trim(summary)
    /\ ppc' = "done"
    /\ UNCHANGED <<report, resultText, lines, idx, pupilData,
                   inSummarySection, inCSVSection, statsVars, classifyVars, pipelineVars,
                   laterVars>>

NextParse == ParseBegin \/ ParseStep \/ ParseReturn

SpecParse == InitParse /\ [][NextParse]_vars

\* "-1,left_eye,2.50": the frame carries a minus sign
rowNegativeFrame == <<"-", "1", ",">> \o left_eye \o <<",", "2", ".", "5", "0">>
\* "0,left_eye,Infinity": the diameter is the word parseFloat reads as a number
rowInfiniteDiameter == <<"0", ",">> \o left_eye \o <<",">> \o sInfinity
\* "2,right_eye,-Infinity"
rowMinusInfinity == <<"2", ",">> \o right_eye \o <<",", "-">> \o sInfinity

\* Rows whose numbers parseInt and parseFloat read, and the lines around them
SignedPool ==
    { rowNegativeFrame, rowInfiniteDiameter, rowMinusInfinity,
      Row(0, left_eye, 231), Row(3, sRightCap, 228), rowBadDiameter,
      lineProcessed, sCsvMarker }

\* parseResultData called with the lines of SignedPool
InitParseSigned ==
    /\ LaterOff
    /\ StatsOff
    /\ ClassifyOff
    /\ PipelineOff
    /\ report \in SeqsUpTo(SignedPool, MaxLines)
    /\ resultText = JoinLines(report)
    /\ lines = <<>>
    /\ idx = 0
    /\ pupilData = <<>>
    /\ summary = <<>>
    /\ inSummarySection = FALSE
    /\ inCSVSection = FALSE
    /\ ppc = "start"

SpecParseSigned == InitParseSigned /\ [][NextParse]_vars

\* The lines of a report with sections
MaxSectionLines == 4

\* "Processed 3 frames, Mean: 2.40": opens the summary and holds a keyword
lineProcessedMean ==
    sProcessed \o <<" ", "3", " ">> \o sFrames \o <<",", " ">> \o sMeanColon
        \o <<" ", "2", ".", "4", "0">>
\* "Left Eye: 1,left_eye,2.31": a keyword and three fields
lineEyeRow ==
    <<"L", "e", "f", "t", " ">> \o sEyeColon \o <<" ">>
        \o Row(1, left_eye, 231)

\* The lines the sections of a report are made of
SectionPool ==
    { lineProcessed, lineProcessedMean, sCsvMarker, sCsvHeader, lineMean,
      lineEyeRow, Row(0, left_eye, 231), Row(5, sRightCap, 261) }

\* parseResultData called with the lines of SectionPool
InitParseSections ==
    /\ LaterOff
    /\ StatsOff
    /\ ClassifyOff
    /\ PipelineOff
    /\ report \in SeqsUpTo(SectionPool, MaxSectionLines)
    /\ resultText = JoinLines(report)
    /\ lines = <<>>
    /\ idx = 0
    /\ pupilData = <<>>
    /\ summary = <<>>
    /\ inSummarySection = FALSE
    /\ inCSVSection = FALSE
    /\ ppc = "start"

SpecParseSections == InitParseSections /\ [][NextParse]_vars

----------------------------------------------------------------------------
(* calculateEyeStats applied to a list of samples *)

StatsDiameters == {0 - 100, 0, 200, 400}

StatsSamples ==
    { [frame |-> 0, eye |-> e, diameter |-> d] :
          e \in {left_eye, right_eye}, d \in StatsDiameters }

InitStats ==
    /\ LaterOff
    /\ ParserOff
    /\ ClassifyOff
    /\ PipelineOff
    /\ statData \in SeqsUpTo(StatsSamples, MaxSamples)
    /\ statEye \in {left_eye, right_eye}
    /\ statResult = undefined
    /\ spc = "start"

CalculateEyeStats ==
    /\ spc = "start"
    /\ statResult' = calculateEyeStats(statData, statEye)
    /\ spc' = "done"
    /\ UNCHANGED <<statData, statEye, parserVars, classifyVars, pipelineVars,
                   laterVars>>

NextStats == CalculateEyeStats

SpecStats == InitStats /\ [][NextStats]_vars

----------------------------------------------------------------------------
(* determineFatigueLevel applied to two optional statistics *)

\* Means around the thresholds; 0 is the mean of the zero-filled statistics
ClassifyMeans == {0, 180, 219, 220, 240, 260, 261, 280}

StatsOfMean(m) ==
    IF m = 0 THEN ZeroStats
    ELSE [mean |-> RInt(m), std |-> Sqrt(RInt(0)),
          min |-> RInt(m), max |-> RInt(m)]

ClassifyInputs == {undefined} \cup { StatsOfMean(m) : m \in ClassifyMeans }

InitClassify ==
    /\ LaterOff
    /\ ParserOff
    /\ StatsOff
    /\ PipelineOff
    /\ argLeftStats \in ClassifyInputs
    /\ argRightStats \in ClassifyInputs
    /\ level = undefined
    /\ cpc = "start"

DetermineFatigueLevel ==
    /\ cpc = "start"
    /\ level' = determineFatigueLevel(argLeftStats, argRightStats)
    /\ cpc' = "done"
    /\ UNCHANGED <<argLeftStats, argRightStats, parserVars, statsVars, pipelineVars,
                   laterVars>>

NextClassify == DetermineFatigueLevel

SpecClassify == InitClassify /\ [][NextClassify]_vars

----------------------------------------------------------------------------
(* calculateBlinkStats, services/eyeTestService.ts *)

\* const threshold = 0.5, in hundredths of a millimetre
BlinkThreshold == 50

\* A drop between two samples whatever their eyes
IsBlink_AnyEye(previous, current) ==
    previous.diameter - current.diameter > BlinkThreshold

\* Lines 82-83: the condition of the loop body
IsBlink(previous, current) ==
    /\ current.eye = previous.eye
    /\ previous.diameter - current.diameter > BlinkThreshold

\* Lines 75-86: the loop from i = 1, here from the second place on
RECURSIVE BlinkCountFrom(_, _)
BlinkCountFrom(samples, i) ==
    IF i > Len(samples) THEN 0
    ELSE (IF IsBlink(samples[i - 1], samples[i]) THEN 1 ELSE 0)
             + BlinkCountFrom(samples, i + 1)

\* Lines 73-92: averageBlinkRate is (blinkCount / testDuration) * 60
calculateBlinkStats(samples, testDuration) ==
    LET blinkCount == BlinkCountFrom(samples, 2)
    IN  [blinkCount       |-> blinkCount,
         averageBlinkRate |-> Frac(blinkCount * 60, testDuration)]

----------------------------------------------------------------------------
(* Record assembly: processAndSaveAnalysis and processEyeTestResult *)

\* Math.max() of no argument
MinusInfinity == "-Infinity"

\* The number of samples, instead of the largest frame plus one
FrameCount_SampleCount(samples) == Len(samples)

\* Math.max(...pupilData.map(d => d.frame)) + 1
FrameCount(samples) ==
    IF samples = <<>> THEN MinusInfinity
    ELSE MaxOf([i \in 1..Len(samples) |-> samples[i].frame]) + 1

\* The guard that never reports missing data
NoValidData_Never(samples) == FALSE

\* if (pupilData.length === 0)
NoValidData(samples) == Len(samples) = 0

NoValidDataResult ==
    [success |-> FALSE, error |-> "No valid pupil data found in results"]

\* leftEyeStats.mean > 0 ? leftEyeStats : undefined
StatsOrUndefined(eyeStats) ==
    IF RLt(RInt(0), eyeStats.mean) THEN eyeStats ELSE undefined

\* Math.round(x) of a fraction: the integer nearest to x, halves upwards
MathRound(x) == (2 * x.n + x.d) \div (2 * x.d)

\* Math.max(a, b) of integers
MathMax(a, b) == IF a >= b THEN a ELSE b

\* Lines 255-266 of analysisService.ts, 161-171 of eyeTestService.ts: the
\* average of the means above 0, in hundredths of a millimetre, or undefined
AvgPupilSize(leftEyeStats, rightEyeStats) ==
    LET l == RLt(RInt(0), leftEyeStats.mean)
        r == RLt(RInt(0), rightEyeStats.mean)
    IN  IF l /\ r THEN RDivInt(RAdd(leftEyeStats.mean, rightEyeStats.mean), 2)
        ELSE IF l THEN leftEyeStats.mean
        ELSE IF r THEN rightEyeStats.mean
        ELSE undefined

\* const baseReactionTimes = { low: 280, moderate: 350, high: 450 }
BaseReactionTime(fatigueLevel) ==
    CASE fatigueLevel = "low"      -> 280
      [] fatigueLevel = "moderate" -> 350
      [] fatigueLevel = "high"     -> 450

\* The reaction time without the floor of 200 ms
generateMockReactionTime_NoFloor(fatigueLevel, avgPupilSize, random) ==
    LET pupilFactor == IF avgPupilSize = undefined THEN RInt(0)
                       ELSE RDivInt(RSub(RInt(300), avgPupilSize), 2)
        baseTime    == RAdd(RInt(BaseReactionTime(fatigueLevel)), pupilFactor)
        variation   == RMul(RSub(random, Frac(1, 2)), RInt(40))
    IN  MathRound(RAdd(baseTime, variation))

\* analysisService.ts lines 163-184; random is the value of Math.random().
\* (3.0 - avgPupilSize) * 50 ms is (300 - hundredths) / 2.
generateMockReactionTime(fatigueLevel, avgPupilSize, random) ==
    LET pupilFactor == IF avgPupilSize = undefined THEN RInt(0)
                       ELSE RDivInt(RSub(RInt(300), avgPupilSize), 2)
        baseTime    == RAdd(RInt(BaseReactionTime(fatigueLevel)), pupilFactor)
        variation   == RMul(RSub(random, Frac(1, 2)), RInt(40))
    IN  MathMax(200, MathRound(RAdd(baseTime, variation)))

\* eyeTestService.ts lines 42-68; random is the value of Math.random()
eyeTestGenerateMockReactionTime(fatigueLevel, avgPupilSize, random) ==
    LET byLevel  == CASE fatigueLevel = "low" ->
                             RAdd(RInt(250), RMul(random, RInt(50)))
                      [] fatigueLevel = "moderate" ->
                             RAdd(RInt(250 + 50), RMul(random, RInt(100)))
                      [] fatigueLevel = "high" ->
                             RAdd(RInt(250 + 150), RMul(random, RInt(150)))
        byPupil  == IF avgPupilSize = undefined THEN 0
                    ELSE IF RLt(avgPupilSize, RInt(200)) THEN 50
                    ELSE IF RLt(RInt(300), avgPupilSize) THEN 0 - 25
                    ELSE 0
    IN  MathRound(RAdd(byLevel, RInt(byPupil)))

\* Math.round(averageBlinkRate * 10) / 10
RoundToTenth(x) == Frac(MathRound(RMul(x, RInt(10))), 10)

\* analysisService.ts lines 248-283: the object analysisData made of what
\* parseResultData returned and of the arguments analysisUrl, metadata and
\* settings; random is the value Math.random() returns to
\* generateMockReactionTime
BuildAnalysisData(parsed, analysisUrl, metadata, settings, random) ==
    LET leftEyeStats  == calculateEyeStats(parsed.pupilData, left_eye)
        rightEyeStats == calculateEyeStats(parsed.pupilData, right_eye)
        fatigueLevel  == determineFatigueLevel(leftEyeStats, rightEyeStats)
    IN  [leftEyeStats  |-> StatsOrUndefined(leftEyeStats),
         rightEyeStats |-> StatsOrUndefined(rightEyeStats),
         summary       |-> parsed.summary,
         fatigueLevel  |-> fatigueLevel,
         pupilData     |-> parsed.pupilData,
         frameCount    |-> FrameCount(parsed.pupilData),
         analysisUrl   |-> analysisUrl,
         metadata      |-> metadata,
         reactionTime  |-> generateMockReactionTime(fatigueLevel,
                               AvgPupilSize(leftEyeStats, rightEyeStats), random),
         settings      |-> settings]

\* An eye-test record that counts the samples for frameCount and carries no
\* analysisUrl
BuildEyeTestData_OwnSchema(parsed, analysisUrl, metadata, testType, testDuration, settings, random) ==
    LET leftEyeStats  == calculateEyeStats(parsed.pupilData, left_eye)
        rightEyeStats == calculateEyeStats(parsed.pupilData, right_eye)
        fatigueLevel  == determineFatigueLevel(leftEyeStats, rightEyeStats)
        blinks        == calculateBlinkStats(parsed.pupilData, testDuration)
    IN  [leftEyeStats  |-> StatsOrUndefined(leftEyeStats),
         rightEyeStats |-> StatsOrUndefined(rightEyeStats),
         summary       |-> parsed.summary,
         fatigueLevel  |-> fatigueLevel,
         pupilData     |-> parsed.pupilData,
         frameCount    |-> Len(parsed.pupilData),
         metadata      |-> metadata,
         reactionTime  |-> eyeTestGenerateMockReactionTime(fatigueLevel,
                               AvgPupilSize(leftEyeStats, rightEyeStats), random),
         testType      |-> testType,
         testDuration  |-> testDuration,
         settings      |-> settings,
         blinkCount    |-> blinks.blinkCount,
         averageBlinkRate |-> RoundToTenth(blinks.averageBlinkRate)]

\* eyeTestService.ts lines 153-209: the object eyeTestData made of what
\* parseResultData returned; random is the value Math.random() returns to
\* generateMockReactionTime
BuildEyeTestData(parsed, analysisUrl, metadata, testType, testDuration, settings, random) ==
    LET leftEyeStats  == calculateEyeStats(parsed.pupilData, left_eye)
        rightEyeStats == calculateEyeStats(parsed.pupilData, right_eye)
        fatigueLevel  == determineFatigueLevel(leftEyeStats, rightEyeStats)
        blinks        == calculateBlinkStats(parsed.pupilData, testDuration)
    IN  [leftEyeStats  |-> StatsOrUndefined(leftEyeStats),
         rightEyeStats |-> StatsOrUndefined(rightEyeStats),
         summary       |-> parsed.summary,
         fatigueLevel  |-> fatigueLevel,
         pupilData     |-> parsed.pupilData,
         frameCount    |-> FrameCount(parsed.pupilData),
         analysisUrl   |-> analysisUrl,
         metadata      |-> metadata,
         reactionTime  |-> eyeTestGenerateMockReactionTime(fatigueLevel,
                               AvgPupilSize(leftEyeStats, rightEyeStats), random),
         testType      |-> testType,
         testDuration  |-> testDuration,
         settings      |-> settings,
         blinkCount    |-> blinks.blinkCount,
         averageBlinkRate |-> RoundToTenth(blinks.averageBlinkRate)]

----------------------------------------------------------------------------
(* The store helpers saveAnalysisResult and saveEyeTestResult *)

\* The keys whose value can be undefined
OptionalKeys ==
    {"leftEyeStats", "rightEyeStats", "analysisUrl", "metadata", "settings"}

\* "Clean the data to remove undefined values"
CleanData(rec) ==
    [k \in {key \in DOMAIN rec :
                key \notin OptionalKeys \/ rec[key] # undefined} |-> rec[k]]

FAKE_UID == "demo-user-12345"

\* The milliseconds of a day
MsPerDay == 86400000

\* n written with at least width digits
PadStart(n, width) ==
    LET digits == FormatInt(n)
    IN  [i \in 1..(width - Len(digits)) |-> "0"] \o digits

\* new Date(ms).toISOString().split('T')[0]: the UTC day of the instant as
\* YYYY-MM-DD, by the proleptic Gregorian calendar (years 0000 to 9999)
ISODate(ms) ==
    LET z    == (ms \div MsPerDay) + 719468
        era  == z \div 146097
        doe  == z - era * 146097
        yoe  == (doe - doe \div 1460 + doe \div 36524 - doe \div 146096)
                    \div 365
        doy  == doe - (365 * yoe + yoe \div 4 - yoe \div 100)
        mp   == (5 * doy + 2) \div 153
        day  == doy - (153 * mp + 2) \div 5 + 1
        mon  == IF mp < 10 THEN mp + 3 ELSE mp - 9
        year == yoe + era * 400 + (IF mon <= 2 THEN 1 ELSE 0)
    IN  PadStart(year, 4) \o <<"-">> \o PadStart(mon, 2) \o <<"-">>
            \o PadStart(day, 2)

\* dataToSave: the cleaned data with timestamp, date, uid and id.  The date
\* is read from the clock right after the timestamp: one reading stands for
\* the two.
DataToSave(rec, timestamp) ==
    LET cleanData == CleanData(rec)
        added     == [timestamp |-> "serverTimestamp",
                      date |-> ISODate(timestamp), uid |-> FAKE_UID,
                      id |-> FormatInt(timestamp)]
    IN  [k \in DOMAIN cleanData \cup DOMAIN added |->
             IF k \in DOMAIN added THEN added[k] ELSE cleanData[k]]

\* set(ref, value) on the path keyed by the timestamp: the value replaces
\* what the key held
StoreSet(path, timestamp, value) ==
    [k \in DOMAIN path \cup {timestamp} |->
         IF k = timestamp THEN value ELSE path[k]]

\* The messages of the errors set() rejects with
StoreErrorMessages == {"set failed", "PERMISSION_DENIED"}

\* catch (error) { return { success: false, error: error.message } }
StoreFailure(message) == [success |-> FALSE, error |-> message]

----------------------------------------------------------------------------
(* One call of processAndSaveAnalysis or of processEyeTestResult *)

\* The values Math.random() returns in the pipeline: the least, and one
\* close to 1
PipelineDraws == {Frac(0, 1), Frac(999, 1000)}

DefaultSettings ==
    [pupilSelection |-> "both", tvModel |-> "ResNet18", blinkDetection |-> TRUE]

\* The analysisUrl and the metadata a call is made with: neither, or a link
\* to the result file and metadata that names its source
PipelineArguments ==
    { <<undefined, undefined>>,
      <<Given("https://example.com/result.txt"), [source |-> "upload"]>> }

\* { ...a, ...b } where a can be undefined
Spread(a, b) ==
    IF a = undefined THEN b
    ELSE [k \in DOMAIN a \cup DOMAIN b |->
              IF k \in DOMAIN b THEN b[k] ELSE a[k]]

\* The metadata processEyeTestResult is called with: its caller's, or when
\* processAndSaveAnalysis calls it (lines 294-298) the metadata of the
\* analysis with source and originalAnalysis set
EyeTestMetadata ==
    IF entry = "analysis"
    THEN Spread(metadataIn, [source |-> "analysis_service",
                             originalAnalysis |-> TRUE])
    ELSE metadataIn

\* The lines the reports of the pipeline are made of
PipelinePool ==
    { Row(0, left_eye, 280), Row(1, right_eye, 228), Row(5, sLeft, 0),
      Row(3, right_eye, 160), rowBadEye, lineProcessed }

\* A report whose frames are 0, 1, 2 and 5
reportSparseFrames ==
    << Row(0, left_eye, 231), Row(1, left_eye, 230), Row(2, right_eye, 228),
       Row(5, right_eye, 229) >>

\* A report with rows before the summary, a summary and a CSV section
reportWithSummary ==
    << Row(7, left_eye, 231), lineProcessed, lineMean, Row(9, left_eye, 240),
       sCsvMarker, sCsvHeader, Row(0, right_eye, 228) >>

\* A report of two wide pupils, 5 mm each
reportWidePupil == << Row(0, left_eye, 500), Row(0, right_eye, 500) >>

\* The values of resultText that are no string, for a call made without a
\* report
NotStrings(r) == IF r = <<>> THEN {undefined, null} ELSE {}

\* The TypeError resultText.split('\n') throws at line 40 when resultText is
\* undefined or null
SplitTypeError(value) ==
    [name |-> "TypeError",
     message |-> IF value = undefined
                 THEN "Cannot read properties of undefined (reading 'split')"
                 ELSE "Cannot read properties of null (reading 'split')"]

\* A catch block that hands the error on
Caught_Rethrow(error) == [rejected |-> error]

\* The catch blocks of processAndSaveAnalysis (lines 320-326) and of
\* processEyeTestResult (lines 219-225); every error thrown is an Error
Caught(error) == [success |-> FALSE, error |-> error.message]

PipelineReports ==
    SeqsUpTo(PipelinePool, MaxReportLines)
        \cup {reportSparseFrames, reportWithSummary, reportWidePupil}

Init ==
    /\ LaterOff
    /\ StatsOff
    /\ ClassifyOff
    /\ report \in PipelineReports
    /\ resultText = JoinLines(report)
    /\ lines = <<>>
    /\ idx = 0
    /\ pupilData = <<>>
    /\ summary = <<>>
    /\ inSummarySection = FALSE
    /\ inCSVSection = FALSE
    /\ ppc = "off"
    /\ entry \in {"analysis", "eyeTest"}
    /\ pc = "start"
    /\ resultTextIn \in {Given(resultText)} \cup NotStrings(report)
    /\ settingsIn \in {undefined, DefaultSettings}
    /\ \E arguments \in PipelineArguments :
           /\ analysisUrlIn = arguments[1]
           /\ metadataIn = arguments[2]
    /\ analysisRec = undefined
    /\ eyeTestRec = undefined
    /\ saveResult = undefined
    /\ eyeTestResult = undefined
    /\ result = undefined
    /\ analyses = <<>>
    /\ eyeTests = <<>>
    /\ setCalls = [analyses |-> 0, eyeTests |-> 0]
    /\ now = 0

\* processAndSaveAnalysis, lines 240-283: up to the await of the save
ProcessAndSaveAnalysis_Assemble ==
    /\ entry = "analysis"
    /\ pc = "start"
    /\ IF resultTextIn \in {undefined, null}
       THEN /\ result' = Caught(SplitTypeError(resultTextIn))
            /\ pc' = "done"
            /\ UNCHANGED analysisRec
       ELSE \E parsed \in {parseResultData(resultTextIn.value)} :
        IF NoValidData(parsed.pupilData)
        THEN /\ result' = NoValidDataResult
             /\ pc' = "done"
             /\ UNCHANGED analysisRec
        ELSE /\ \E random \in PipelineDraws :
                    analysisRec' = BuildAnalysisData(parsed, analysisUrlIn,
                                       metadataIn, settingsIn, random)
             /\ pc' = "saveAnalysis"
             /\ UNCHANGED result
    /\ UNCHANGED <<entry, resultTextIn, settingsIn, analysisUrlIn, metadataIn,
                   eyeTestRec, saveResult, eyeTestResult,
                   storeVars, parserVars, statsVars, classifyVars,
                   laterVars>>

\* saveAnalysisResult, part_000 lines 255-284: set() succeeds or throws
SaveAnalysisResult ==
    /\ pc = "saveAnalysis"
    /\ setCalls' = [setCalls EXCEPT !.analyses = @ + 1]
    /\ \/ /\ analyses' = StoreSet(analyses, now, DataToSave(analysisRec, now))
          /\ saveResult' = [success |-> TRUE, id |-> now]
       \/ /\ \E message \in StoreErrorMessages :
                 saveResult' = StoreFailure(message)
          /\ UNCHANGED analyses
    /\ pc' = "eyeTest"
    /\ UNCHANGED <<entry, resultTextIn, settingsIn, analysisUrlIn, metadataIn,
                   analysisRec, eyeTestRec, eyeTestResult,
                   result, eyeTests, now, parserVars, statsVars, classifyVars,
                   laterVars>>

\* processEyeTestResult, lines 144-209: up to the await of the save.  Called
\* directly, or by processAndSaveAnalysis (lines 291-302) with the same text
\* and settings, 'pupil_analysis' and 30.
ProcessEyeTestResult_Assemble ==
    /\ \/ entry = "eyeTest" /\ pc = "start"
       \/ entry = "analysis" /\ pc = "eyeTest"
    /\ IF resultTextIn \in {undefined, null}
       THEN /\ eyeTestResult' = Caught(SplitTypeError(resultTextIn))
            /\ pc' = "return"
            /\ UNCHANGED eyeTestRec
       ELSE \E parsed \in {parseResultData(resultTextIn.value)} :
        IF NoValidData(parsed.pupilData)
        THEN /\ eyeTestResult' = NoValidDataResult
             /\ pc' = "return"
             /\ UNCHANGED eyeTestRec
        ELSE /\ \E random \in PipelineDraws :
                    eyeTestRec' = BuildEyeTestData(parsed, analysisUrlIn,
                                      EyeTestMetadata, "pupil_analysis", 30,
                                      settingsIn, random)
             /\ pc' = "saveEyeTest"
             /\ UNCHANGED eyeTestResult
    /\ UNCHANGED <<entry, resultTextIn, settingsIn, analysisUrlIn, metadataIn,
                   analysisRec, saveResult, result,
                   storeVars, parserVars, statsVars, classifyVars,
                   laterVars>>

\* saveEyeTestResult, part_000 lines 337-365, and lines 214-218 of
\* processEyeTestResult
SaveEyeTestResult ==
    /\ pc = "saveEyeTest"
    /\ setCalls' = [setCalls EXCEPT !.eyeTests = @ + 1]
    /\ \/ /\ eyeTests' = StoreSet(eyeTests, now, DataToSave(eyeTestRec, now))
          /\ eyeTestResult' = [success |-> TRUE, data |-> eyeTestRec]
       \/ /\ \E message \in StoreErrorMessages :
                 eyeTestResult' = StoreFailure(message)
          /\ UNCHANGED eyeTests
    /\ pc' = "return"
    /\ UNCHANGED <<entry, resultTextIn, settingsIn, analysisUrlIn, metadataIn,
                   analysisRec, eyeTestRec, saveResult,
                   result, analyses, now, parserVars, statsVars, classifyVars,
                   laterVars>>

\* processEyeTestResult called directly: its value is the caller's result
ProcessEyeTestResult_Return ==
    /\ entry = "eyeTest"
    /\ pc = "return"
    /\ result' = eyeTestResult
    /\ pc' = "done"
    /\ UNCHANGED <<entry, resultTextIn, settingsIn, analysisUrlIn, metadataIn,
                   analysisRec, eyeTestRec, saveResult,
                   eyeTestResult, storeVars, parserVars, statsVars,
                   classifyVars,
                   laterVars>>

\* A return that hands out the record whatever the save answered
ProcessAndSaveAnalysis_Return_AlwaysData ==
    /\ entry = "analysis"
    /\ pc = "return"
    /\ result' = [success |-> TRUE, data |-> analysisRec,
                  eyeTestSaved |-> eyeTestResult.success]
    /\ pc' = "done"
    /\ UNCHANGED <<entry, resultTextIn, settingsIn, analysisUrlIn, metadataIn,
                   analysisRec, eyeTestRec, saveResult,
                   eyeTestResult, storeVars, parserVars, statsVars,
                   classifyVars,
                   laterVars>>

\* processAndSaveAnalysis, lines 303-319
ProcessAndSaveAnalysis_Return ==
    /\ entry = "analysis"
    /\ pc = "return"
    /\ result' = IF saveResult.success
                 THEN [success |-> TRUE, data |-> analysisRec,
                       eyeTestSaved |-> eyeTestResult.success]
                 ELSE [success |-> FALSE, error |-> saveResult.error]
    /\ pc' = "done"
    /\ UNCHANGED <<entry, resultTextIn, settingsIn, analysisUrlIn, metadataIn,
                   analysisRec, eyeTestRec, saveResult,
                   eyeTestResult, storeVars, parserVars, statsVars,
                   classifyVars,
                   laterVars>>

\* The client clock advances; the call reads it in the two saves only, so
\* the time that passes elsewhere is the time that passes before a save
Tick ==
    /\ pc \in {"saveAnalysis", "saveEyeTest"}
    /\ now < MaxClock
    /\ now' = now + 1
    /\ UNCHANGED <<callVars, analyses, eyeTests, setCalls, parserVars,
                   statsVars, classifyVars,
                   laterVars>>

Next ==
    \/ ProcessAndSaveAnalysis_Assemble
    \/ SaveAnalysisResult
    \/ ProcessEyeTestResult_Assemble
    \/ SaveEyeTestResult
    \/ ProcessEyeTestResult_Return
    \/ ProcessAndSaveAnalysis_Return
    \/ Tick

Spec == Init /\ [][Next]_vars

----------------------------------------------------------------------------
(* loadSampleAnalysisData and loadSampleEyeTestData: the two calls made with
   the sample reports the services carry *)

\* analysisService.ts lines 335-386: the lines of sampleResultText
sampleAnalysisReport ==
    << <<"3", "7", ",", "l", "e", "f", "t", "_", "e", "y", "e", ",", "2",
         ".", "3", "0", "0", "4", "5", "7", "7", "1", "5", "9", "8", "8",
         "1", "5", "9">>,
       <<"3", "8", ",", "l", "e", "f", "t", "_", "e", "y", "e", ",", "2",
         ".", "3", "2", "1", "2", "6", "9", "7", "5", "0", "5", "9", "5",
         "0", "9", "2", "8">>,
       <<"3", "9", ",", "l", "e", "f", "t", "_", "e", "y", "e", ",", "2",
         ".", "3", "2", "6", "8", "0", "2", "4", "9", "2", "1", "4", "1",
         "7", "2", "3", "6">>,
       <<"4", "0", ",", "l", "e", "f", "t", "_", "e", "y", "e", ",", "2",
         ".", "3", "2", "5", "5", "1", "9", "3", "2", "3", "3", "4", "8",
         "9", "9", "9">>,
       <<"4", "1", ",", "l", "e", "f", "t", "_", "e", "y", "e", ",", "2",
         ".", "3", "0", "1", "6", "4", "8", "6", "1", "6", "7", "9", "0",
         "7", "7", "1", "5">>,
       <<"4", "2", ",", "l", "e", "f", "t", "_", "e", "y", "e", ",", "2",
         ".", "2", "9", "1", "5", "4", "9", "4", "4", "4", "1", "9", "8",
         "6", "0", "8", "4">>,
       <<"4", "3", ",", "l", "e", "f", "t", "_", "e", "y", "e", ",", "2",
         ".", "3", "0", "7", "1", "2", "9", "1", "4", "4", "6", "6", "8",
         "5", "7", "9">>,
       <<"4", "4", ",", "l", "e", "f", "t", "_", "e", "y", "e", ",", "2",
         ".", "3", "0", "1", "7", "4", "2", "3", "1", "5", "2", "9", "2",
         "3", "5", "8", "4">>,
       <<"4", "5", ",", "l", "e", "f", "t", "_", "e", "y", "e", ",", "2",
         ".", "3", "0", "6", "8", "8", "7", "1", "4", "9", "8", "1", "0",
         "7", "9", "1">>,
       <<"4", "6", ",", "l", "e", "f", "t", "_", "e", "y", "e", ",", "2",
         ".", "2", "8", "7", "1", "7", "9", "7", "0", "8", "4", "8", "0",
         "8", "3", "5">>,
       <<"4", "7", ",", "l", "e", "f", "t", "_", "e", "y", "e", ",", "2",
         ".", "2", "9", "2", "2", "2", "8", "4", "6", "0", "3", "1", "1",
         "8", "8", "9", "6">>,
       <<"4", "8", ",", "l", "e", "f", "t", "_", "e", "y", "e", ",", "2",
         ".", "2", "5", "4", "8", "7", "8", "7", "5", "9", "3", "8", "4",
         "1", "5", "5", "3">>,
       <<"4", "9", ",", "l", "e", "f", "t", "_", "e", "y", "e", ",", "2",
         ".", "2", "6", "0", "7", "4", "7", "1", "9", "4", "2", "9", "0",
         "1", "6", "1">>,
       <<"5", "0", ",", "l", "e", "f", "t", "_", "e", "y", "e", ",", "2",
         ".", "2", "9", "9", "2", "4", "3", "9", "2", "7", "0", "0", "1",
         "9", "5", "3">>,
       <<"0", ",", "r", "i", "g", "h", "t", "_", "e", "y", "e", ",", "2",
         ".", "2", "7", "5", "5", "9", "1", "3", "7", "3", "4", "4", "3",
         "6", "0", "3", "5">>,
       <<"1", ",", "r", "i", "g", "h", "t", "_", "e", "y", "e", ",", "2",
         ".", "2", "1", "5", "1", "4", "9", "6", "4", "1", "0", "3", "6",
         "9", "8", "7", "3">>,
       <<"2", ",", "r", "i", "g", "h", "t", "_", "e", "y", "e", ",", "2",
         ".", "2", "0", "3", "4", "6", "0", "4", "5", "4", "9", "4", "0",
         "7", "9", "6">>,
       <<"3", ",", "r", "i", "g", "h", "t", "_", "e", "y", "e", ",", "2",
         ".", "2", "9", "3", "2", "8", "6", "3", "2", "3", "5", "4", "7",
         "3", "6", "3", "3">>,
       <<"4", ",", "r", "i", "g", "h", "t", "_", "e", "y", "e", ",", "2",
         ".", "2", "8", "7", "3", "5", "8", "7", "6", "0", "8", "3", "3",
         "7", "4", "0", "2">>,
       <<"5", ",", "r", "i", "g", "h", "t", "_", "e", "y", "e", ",", "2",
         ".", "3", "2", "2", "6", "3", "3", "9", "8", "1", "7", "0", "4",
         "7", "1", "2">>,
       <<"6", ",", "r", "i", "g", "h", "t", "_", "e", "y", "e", ",", "2",
         ".", "3", "2", "7", "9", "5", "6", "1", "9", "9", "6", "4", "5",
         "9", "9", "6">>,
       <<"7", ",", "r", "i", "g", "h", "t", "_", "e", "y", "e", ",", "2",
         ".", "3", "1", "0", "2", "7", "9", "6", "0", "7", "7", "7", "2",
         "8", "2", "7">>,
       <<"8", ",", "r", "i", "g", "h", "t", "_", "e", "y", "e", ",", "2",
         ".", "3", "0", "5", "3", "1", "7", "6", "4", "0", "3", "0", "4",
         "5", "6", "5", "4">>,
       <<"9", ",", "r", "i", "g", "h", "t", "_", "e", "y", "e", ",", "2",
         ".", "3", "0", "1", "8", "9", "4", "1", "8", "7", "9", "2", "7",
         "2", "4", "6">>,
       <<"1", "0", ",", "r", "i", "g", "h", "t", "_", "e", "y", "e", ",",
         "2", ".", "3", "2", "8", "3", "6", "4", "6", "1", "0", "6", "7",
         "1", "9", "9", "7">>,
       <<"1", "1", ",", "r", "i", "g", "h", "t", "_", "e", "y", "e", ",",
         "2", ".", "3", "5", "8", "9", "9", "9", "4", "9", "0", "7", "3",
         "7", "9", "1", "5">>,
       <<"1", "2", ",", "r", "i", "g", "h", "t", "_", "e", "y", "e", ",",
         "2", ".", "3", "6", "8", "4", "1", "2", "0", "1", "7", "8", "2",
         "2", "2", "6", "5", "6">>,
       <<"1", "3", ",", "r", "i", "g", "h", "t", "_", "e", "y", "e", ",",
         "2", ".", "3", "7", "3", "2", "2", "6", "6", "4", "2", "6", "0",
         "8", "6", "4", "2", "6">>,
       <<"1", "4", ",", "r", "i", "g", "h", "t", "_", "e", "y", "e", ",",
         "2", ".", "3", "0", "0", "3", "4", "5", "6", "5", "9", "2", "5",
         "5", "9", "8", "1", "4">>,
       <<>>,
       <<"P", "r", "o", "c", "e", "s", "s", "e", "d", " ", "2", "5", "5",
         " ", "f", "r", "a", "m", "e", "s">>,
       <<>>,
       <<"L", "e", "f", "t", " ", "E", "y", "e", ":">>,
       <<" ", " ", "M", "e", "a", "n", ":", " ", "2", ".", "4", "0", " ",
         "m", "m">>,
       <<" ", " ", "S", "t", "d", ":", " ", "0", ".", "1", "1", " ", "m",
         "m">>,
       <<" ", " ", "M", "i", "n", ":", " ", "2", ".", "2", "0", " ", "m",
         "m">>,
       <<" ", " ", "M", "a", "x", ":", " ", "2", ".", "7", "1", " ", "m",
         "m">>,
       <<>>,
       <<"R", "i", "g", "h", "t", " ", "E", "y", "e", ":">>,
       <<" ", " ", "M", "e", "a", "n", ":", " ", "2", ".", "2", "8", " ",
         "m", "m">>,
       <<" ", " ", "S", "t", "d", ":", " ", "0", ".", "1", "0", " ", "m",
         "m">>,
       <<" ", " ", "M", "i", "n", ":", " ", "2", ".", "0", "9", " ", "m",
         "m">>,
       <<" ", " ", "M", "a", "x", ":", " ", "2", ".", "5", "3", " ", "m",
         "m">>,
       <<>>,
       <<"-", "-", "-", " ", "C", "S", "V", " ", "D", "a", "t", "a", " ",
         "-", "-", "-">>,
       <<"F", "r", "a", "m", "e", ",", "E", "y", "e", "_", "T", "y", "p",
         "e", ",", "D", "i", "a", "m", "e", "t", "e", "r", "_", "m", "m">>,
       <<"0", ",", "l", "e", "f", "t", "_", "e", "y", "e", ",", "2", ".",
         "3", "4", "9", "5", "9", "9", "3", "6", "1", "4", "1", "9", "6",
         "7", "7", "7">>,
       <<"1", ",", "l", "e", "f", "t", "_", "e", "y", "e", ",", "2", ".",
         "3", "1", "6", "0", "3", "6", "9", "3", "9", "6", "2", "0", "9",
         "7", "1", "7">>,
       <<"2", ",", "l", "e", "f", "t", "_", "e", "y", "e", ",", "2", ".",
         "3", "1", "2", "1", "5", "5", "0", "0", "8", "3", "1", "6", "0",
         "4">>,
       <<"3", ",", "l", "e", "f", "t", "_", "e", "y", "e", ",", "2", ".",
         "2", "9", "2", "2", "1", "2", "2", "4", "7", "8", "4", "8", "5",
         "1", "0", "7">>,
       <<"4", ",", "l", "e", "f", "t", "_", "e", "y", "e", ",", "2", ".",
         "3", "8", "5", "8", "7", "4", "5", "0", "9", "8", "1", "1", "4",
         "0", "1", "4">>,
       <<"5", ",", "l", "e", "f", "t", "_", "e", "y", "e", ",", "2", ".",
         "3", "8", "9", "3", "1", "7", "0", "3", "5", "6", "7", "5", "0",
         "4", "9">> >>

\* eyeTestService.ts lines 234-252: the lines of sampleResultText
sampleEyeTestReport ==
    << <<"3", "7", ",", "l", "e", "f", "t", "_", "e", "y", "e", ",", "2",
         ".", "3", "0", "0", "4", "5", "7", "7", "1", "5", "9", "8", "8",
         "1", "5", "9">>,
       <<"3", "8", ",", "l", "e", "f", "t", "_", "e", "y", "e", ",", "2",
         ".", "3", "2", "1", "2", "6", "9", "7", "5", "0", "5", "9", "5",
         "0", "9", "2", "8">>,
       <<"3", "9", ",", "l", "e", "f", "t", "_", "e", "y", "e", ",", "2",
         ".", "3", "2", "6", "8", "0", "2", "4", "9", "2", "1", "4", "1",
         "7", "2", "3", "6">>,
       <<"4", "0", ",", "l", "e", "f", "t", "_", "e", "y", "e", ",", "2",
         ".", "3", "2", "5", "5", "1", "9", "3", "2", "3", "3", "4", "8",
         "9", "9", "9">>,
       <<"4", "1", ",", "l", "e", "f", "t", "_", "e", "y", "e", ",", "2",
         ".", "3", "0", "1", "6", "4", "8", "6", "1", "6", "7", "9", "0",
         "7", "7", "1", "5">>,
       <<"4", "2", ",", "l", "e", "f", "t", "_", "e", "y", "e", ",", "2",
         ".", "2", "9", "1", "5", "4", "9", "4", "4", "4", "1", "9", "8",
         "6", "0", "8", "4">>,
       <<"4", "3", ",", "l", "e", "f", "t", "_", "e", "y", "e", ",", "2",
         ".", "3", "0", "7", "1", "2", "9", "1", "4", "4", "6", "6", "8",
         "5", "7", "9">>,
       <<"4", "4", ",", "l", "e", "f", "t", "_", "e", "y", "e", ",", "2",
         ".", "3", "0", "1", "7", "4", "2", "3", "1", "5", "2", "9", "2",
         "3", "5", "8", "4">>,
       <<"4", "5", ",", "l", "e", "f", "t", "_", "e", "y", "e", ",", "2",
         ".", "3", "0", "6", "8", "8", "7", "1", "4", "9", "8", "1", "0",
         "7", "9", "1">>,
       <<"4", "6", ",", "l", "e", "f", "t", "_", "e", "y", "e", ",", "2",
         ".", "2", "8", "7", "1", "7", "9", "7", "0", "8", "4", "8", "0",
         "8", "3", "5">>,
       <<"4", "7", ",", "l", "e", "f", "t", "_", "e", "y", "e", ",", "2",
         ".", "2", "9", "2", "2", "2", "8", "4", "6", "0", "3", "1", "1",
         "8", "8", "9", "6">>,
       <<"4", "8", ",", "l", "e", "f", "t", "_", "e", "y", "e", ",", "2",
         ".", "2", "5", "4", "8", "7", "8", "7", "5", "9", "3", "8", "4",
         "1", "5", "5", "3">>,
       <<"4", "9", ",", "l", "e", "f", "t", "_", "e", "y", "e", ",", "2",
         ".", "2", "6", "0", "7", "4", "7", "1", "9", "4", "2", "9", "0",
         "1", "6", "1">>,
       <<"5", "0", ",", "l", "e", "f", "t", "_", "e", "y", "e", ",", "2",
         ".", "2", "9", "9", "2", "4", "3", "9", "2", "7", "0", "0", "1",
         "9", "5", "3">>,
       <<"5", "1", ",", "r", "i", "g", "h", "t", "_", "e", "y", "e", ",",
         "2", ".", "1", "2", "3", "4", "5", "6", "7", "8", "9", "0", "1",
         "2", "3", "4", "5", "6">>,
       <<"5", "2", ",", "r", "i", "g", "h", "t", "_", "e", "y", "e", ",",
         "2", ".", "2", "3", "4", "5", "6", "7", "8", "9", "0", "1", "2",
         "3", "4", "5", "6", "7">>,
       <<"5", "3", ",", "r", "i", "g", "h", "t", "_", "e", "y", "e", ",",
         "2", ".", "3", "4", "5", "6", "7", "8", "9", "0", "1", "2", "3",
         "4", "5", "6", "7", "8">>,
       <<"5", "4", ",", "r", "i", "g", "h", "t", "_", "e", "y", "e", ",",
         "2", ".", "4", "5", "6", "7", "8", "9", "0", "1", "2", "3", "4",
         "5", "6", "7", "8", "9">>,
       <<"5", "5", ",", "r", "i", "g", "h", "t", "_", "e", "y", "e", ",",
         "2", ".", "5", "6", "7", "8", "9", "0", "1", "2", "3", "4", "5",
         "6", "7", "8", "9", "0">> >>

\* new Date(ms).toISOString()
ISOString(ms) ==
    LET inDay == ms % MsPerDay
    IN  ISODate(ms) \o <<"T">> \o PadStart(inDay \div 3600000, 2) \o <<":">>
            \o PadStart((inDay \div 60000) % 60, 2) \o <<":">>
            \o PadStart((inDay \div 1000) % 60, 2) \o <<".">>
            \o PadStart(inDay % 1000, 3) \o <<"Z">>

\* The metadata of the two sample calls, made at the instant ms
SampleMetadata(fn, ms) ==
    IF fn = "analysis"
    THEN [source |-> "sample_data", timestamp |-> ISOString(ms),
          note |-> "Sample cognitive fatigue analysis with mock reaction time data"]
    ELSE [source |-> "sample_data", timestamp |-> ISOString(ms),
          version |-> "1.0.0"]

\* The calls of lines 388-401 of analysisService.ts and 254-269 of
\* eyeTestService.ts, both with the settings both, ResNet18 and true, no
\* analysisUrl and the metadata of the sample
InitSample ==
    /\ LaterOff
    /\ StatsOff
    /\ ClassifyOff
    /\ entry \in {"analysis", "eyeTest"}
    /\ report = IF entry = "analysis" THEN sampleAnalysisReport
                                      ELSE sampleEyeTestReport
    /\ resultText = JoinLines(report)
    /\ lines = <<>>
    /\ idx = 0
    /\ pupilData = <<>>
    /\ summary = <<>>
    /\ inSummarySection = FALSE
    /\ inCSVSection = FALSE
    /\ ppc = "off"
    /\ pc = "start"
    /\ resultTextIn = Given(resultText)
    /\ settingsIn = DefaultSettings
    /\ analysisUrlIn = undefined
    /\ metadataIn = SampleMetadata(entry, 0)
    /\ analysisRec = undefined
    /\ eyeTestRec = undefined
    /\ saveResult = undefined
    /\ eyeTestResult = undefined
    /\ result = undefined
    /\ analyses = <<>>
    /\ eyeTests = <<>>
    /\ setCalls = [analyses |-> 0, eyeTests |-> 0]
    /\ now = 0

SpecSample == InitSample /\ [][Next]_vars

----------------------------------------------------------------------------
(* components/CognitiveMetricsChart.tsx: the series of today and its trend *)

MaxPoints == 4
MaxAnalyses == 3

\* xs.reduce((sum, val) => sum + val, 0) of fractions
RECURSIVE RSum(_)
RSum(xs) == IF xs = <<>> THEN RInt(0) ELSE RAdd(Head(xs), RSum(Tail(xs)))

\* xs.reduce((sum, val) => sum + Math.pow(val - mean, 2), 0) of fractions
RECURSIVE RSumSqDev(_, _)
RSumSqDev(xs, mean) ==
    IF xs = <<>> THEN RInt(0)
    ELSE LET dev == RSub(Head(xs), mean)
         IN  RAdd(RMul(dev, dev), RSumSqDev(Tail(xs), mean))

\* Math.sqrt(x) > k for a number k >= 0 of hundredths
SqrtGreater(root, k) == RLt(RInt(k * k), root.sqrtOf)

\* Array.prototype.sort with (a, b) => a.timestamp - b.timestamp: the sort
\* is stable, records of equal timestamp keep the order they came in
RECURSIVE InsertByTimestamp(_, _)
InsertByTimestamp(sorted, a) ==
    IF sorted = <<>> THEN <<a>>
    ELSE IF sorted[Len(sorted)].timestamp <= a.timestamp
         THEN Append(sorted, a)
         ELSE Append(InsertByTimestamp(SubSeq(sorted, 1, Len(sorted) - 1), a),
                     sorted[Len(sorted)])

RECURSIVE SortByTimestamp(_)
SortByTimestamp(records) ==
    IF records = <<>> THEN <<>>
    ELSE InsertByTimestamp(
             SortByTimestamp(SubSeq(records, 1, Len(records) - 1)),
             records[Len(records)])

\* The series in the order the records were delivered in
TodayAnalyses_Unsorted(records, day) ==
    SelectSeq(records, LAMBDA analysis : analysis.date = day)

\* Lines 43-45: analyses.filter(date === today).sort(by timestamp)
TodayAnalyses(records, day) ==
    SortByTimestamp(SelectSeq(records, LAMBDA analysis : analysis.date = day))

\* analysis.leftEyeStats && analysis.leftEyeStats.mean > 0
HasPositiveMean(analysis, key) ==
    /\ key \in DOMAIN analysis
    /\ analysis[key] # undefined
    /\ RLt(RInt(0), analysis[key].mean)

\* Lines 66-79: the average of the means above 0, or 0
AvgPupilDiameter(analysis) ==
    LET l == HasPositiveMean(analysis, "leftEyeStats")
        r == HasPositiveMean(analysis, "rightEyeStats")
    IN  IF l /\ r
        THEN RDivInt(RAdd(analysis.leftEyeStats.mean,
                          analysis.rightEyeStats.mean), 2)
        ELSE IF l THEN analysis.leftEyeStats.mean
        ELSE IF r THEN analysis.rightEyeStats.mean
        ELSE RInt(0)

\* Lines 59-86: the points of the chart, of which generateConclusions reads
\* pupilDiameter only
ChartData(records) ==
    [i \in 1..Len(records) |->
         [pupilDiameter |-> AvgPupilDiameter(records[i])]]

\* The first half without the middle point
HalfLength_Floor(n) == n \div 2

\* Math.ceil(pupilSizes.length / 2)
HalfLength(n) == (n + 1) \div 2

PupilSizes(data) == [i \in 1..Len(data) |-> data[i].pupilDiameter]

\* Lines 100-106: secondHalfAvg - firstHalfAvg, for two points or more
PupilTrend(data) ==
    LET pupilSizes    == PupilSizes(data)
        firstHalf     == SubSeq(pupilSizes, 1, HalfLength(Len(pupilSizes)))
        secondHalf    == SubSeq(pupilSizes, HalfLength(Len(pupilSizes)) + 1,
                                Len(pupilSizes))
        firstHalfAvg  == RDivInt(RSum(firstHalf), Len(firstHalf))
        secondHalfAvg == RDivInt(RSum(secondHalf), Len(secondHalf))
    IN  RSub(secondHalfAvg, firstHalfAvg)

\* Lines 107-109: the population standard deviation of the whole series
PupilVariability(data) ==
    LET pupilSizes == PupilSizes(data)
        mean       == RDivInt(RSum(pupilSizes), Len(pupilSizes))
    IN  Sqrt(RDivInt(RSumSqDev(pupilSizes, mean), Len(pupilSizes)))

\* The thresholds 0.1 and 0.15 in hundredths of a millimetre
TrendThreshold == 10
VariabilityThreshold == 15

\* The procedure that looks at the variability before the trend
generateConclusions_VariabilityFirst(data) ==
    IF Len(data) < 2 THEN [trend |-> "insufficient"]
    ELSE IF SqrtGreater(PupilVariability(data), VariabilityThreshold)
         THEN [trend |-> "variable"]
    ELSE IF RLt(PupilTrend(data), RInt(0 - TrendThreshold))
         THEN [trend |-> "declining"]
    ELSE IF RLt(RInt(TrendThreshold), PupilTrend(data))
         THEN [trend |-> "improving"]
    ELSE [trend |-> "stable"]

\* Lines 89-145; of the object returned the model keeps the field trend
generateConclusions(data) ==
    IF Len(data) < 2 THEN [trend |-> "insufficient"]
    ELSE IF RLt(PupilTrend(data), RInt(0 - TrendThreshold))
         THEN [trend |-> "declining"]
    ELSE IF RLt(RInt(TrendThreshold), PupilTrend(data))
         THEN [trend |-> "improving"]
    ELSE IF SqrtGreater(PupilVariability(data), VariabilityThreshold)
         THEN [trend |-> "variable"]
    ELSE [trend |-> "stable"]

\* The pupil diameters of the points: 0 is the point of a record without an
\* eye of mean above 0
TrendDiameters == {0, 200, 210, 230, 250}

TrendPoints == { [pupilDiameter |-> RInt(d)] : d \in TrendDiameters }

InitTrend ==
    /\ BlinkOff
    /\ ReactionOff
    /\ ReaderOff
    /\ DashboardOff
    /\ PupilOff
    /\ ParserOff
    /\ StatsOff
    /\ ClassifyOff
    /\ PipelineOff
    /\ chartAnalyses = <<>>
    /\ today = "none"
    /\ todayAnalyses = <<>>
    /\ trendData \in SeqsUpTo(TrendPoints, MaxPoints)
    /\ conclusion = undefined
    /\ tpc = "conclude"

\* Line 147: const conclusions = generateConclusions(chartData)
GenerateConclusions ==
    /\ tpc = "conclude"
    /\ conclusion' = generateConclusions(trendData)
    /\ tpc' = "done"
    /\ UNCHANGED <<chartAnalyses, today, todayAnalyses, trendData, besidesTrend>>

NextTrend == GenerateConclusions

SpecTrend == InitTrend /\ [][NextTrend]_vars

\* The days and the records the chart is rendered with
ChartDays == {"2026-11-05", "2026-11-06"}

ChartStats ==
    { [leftEyeStats |-> StatsOfMean(200)],
      [leftEyeStats |-> StatsOfMean(220), rightEyeStats |-> StatsOfMean(280)] }

ChartRecords ==
    { [k \in {"timestamp", "date"} \cup DOMAIN st |->
           IF k = "timestamp" THEN t
           ELSE IF k = "date" THEN day
           ELSE st[k]] :
          t \in 1..3, day \in ChartDays, st \in ChartStats }

InitChart ==
    /\ BlinkOff
    /\ ReactionOff
    /\ ReaderOff
    /\ DashboardOff
    /\ PupilOff
    /\ ParserOff
    /\ StatsOff
    /\ ClassifyOff
    /\ PipelineOff
    /\ chartAnalyses \in SeqsUpTo(ChartRecords, MaxAnalyses)
    /\ today \in ChartDays
    /\ todayAnalyses = <<>>
    /\ trendData = <<>>
    /\ conclusion = undefined
    /\ tpc = "render"

\* Lines 42-56: the records of today in time order; nothing more is
\* computed when there is none
RenderToday ==
    /\ tpc = "render"
    /\ todayAnalyses' = TodayAnalyses(chartAnalyses, today)
    /\ tpc' = IF Len(todayAnalyses') = 0 THEN "empty" ELSE "chartData"
    /\ UNCHANGED <<chartAnalyses, today, trendData, conclusion, besidesTrend>>

\* Lines 59-86
PrepareChartData ==
    /\ tpc = "chartData"
    /\ trendData' = ChartData(todayAnalyses)
    /\ tpc' = "conclude"
    /\ UNCHANGED <<chartAnalyses, today, todayAnalyses, conclusion, besidesTrend>>

NextChart == RenderToday \/ PrepareChartData \/ GenerateConclusions

SpecChart == InitChart /\ [][NextChart]_vars

----------------------------------------------------------------------------
(* calculateBlinkStats applied to a list of samples *)

BlinkDiameters == {190, 200, 250}

BlinkSamples ==
    { [frame |-> f, eye |-> e, diameter |-> d] :
          f \in {0, 7}, e \in {left_eye, right_eye}, d \in BlinkDiameters }

\* One eye, diameters 2.5, 2.5, 1.9, 1.8
blinkExample ==
    << [frame |-> 0, eye |-> left_eye, diameter |-> 250],
       [frame |-> 1, eye |-> left_eye, diameter |-> 250],
       [frame |-> 2, eye |-> left_eye, diameter |-> 190],
       [frame |-> 3, eye |-> left_eye, diameter |-> 180] >>

InitBlink ==
    /\ TrendOff
    /\ ReactionOff
    /\ ReaderOff
    /\ DashboardOff
    /\ PupilOff
    /\ ParserOff
    /\ StatsOff
    /\ ClassifyOff
    /\ PipelineOff
    /\ blinkData \in SeqsUpTo(BlinkSamples, MaxBlinkSamples) \cup {blinkExample}
    /\ blinkDuration \in {30, 60}
    /\ blinkStats = undefined
    /\ bpc = "start"

CalculateBlinkStats ==
    /\ bpc = "start"
    /\ blinkStats' = calculateBlinkStats(blinkData, blinkDuration)
    /\ bpc' = "done"
    /\ UNCHANGED <<blinkData, blinkDuration, besidesBlink>>

NextBlink == CalculateBlinkStats

SpecBlink == InitBlink /\ [][NextBlink]_vars

----------------------------------------------------------------------------
(* The two functions generateMockReactionTime applied to a level, an average
   pupil size and a value of Math.random() *)

RandomSteps == 4

\* Values of Math.random(), which is at least 0 and below 1
RandomDraws ==
    { Frac(k, RandomSteps) : k \in 0..(RandomSteps - 1) } \cup {Frac(999, 1000)}

\* Average pupil sizes in hundredths of a millimetre: absent, tiny, around
\* 2.0 and 3.0, and far above what an eye measures
ReactionAverages ==
    {undefined} \cup
        { RInt(a) : a \in {1, 199, 200, 250, 300, 301, 1000, 2600} } \cup
        { Frac(599, 2) }

InitReaction ==
    /\ TrendOff
    /\ BlinkOff
    /\ ReaderOff
    /\ DashboardOff
    /\ PupilOff
    /\ ParserOff
    /\ StatsOff
    /\ ClassifyOff
    /\ PipelineOff
    /\ rtLevel \in {"low", "moderate", "high"}
    /\ rtAvgPupilSize \in ReactionAverages
    /\ rtRandom \in RandomDraws
    /\ rtAnalysis = undefined
    /\ rtEyeTest = undefined

\* analysisService.ts line 269
GenerateMockReactionTime ==
    /\ rtLevel # "none"
    /\ rtAnalysis = undefined
    /\ rtAnalysis' = [reactionTime |->
                         generateMockReactionTime(rtLevel, rtAvgPupilSize,
                                                  rtRandom)]
    /\ UNCHANGED <<rtLevel, rtAvgPupilSize, rtRandom, rtEyeTest, besidesReaction>>

\* eyeTestService.ts line 174
EyeTestGenerateMockReactionTime ==
    /\ rtLevel # "none"
    /\ rtEyeTest = undefined
    /\ rtEyeTest' = [reactionTime |->
                        eyeTestGenerateMockReactionTime(rtLevel, rtAvgPupilSize,
                                                        rtRandom)]
    /\ UNCHANGED <<rtLevel, rtAvgPupilSize, rtRandom, rtAnalysis, besidesReaction>>

NextReaction == GenerateMockReactionTime \/ EyeTestGenerateMockReactionTime

SpecReaction == InitReaction /\ [][NextReaction]_vars

----------------------------------------------------------------------------
(* The store under repeated saves, and the readers getUserAnalyses,
   getAnalysesForDateRange, getUserEyeTests and getEyeTestsForDateRange *)

\* The number of saves the callers issue
MaxSaves == 2

\* ({ id, ...record }): the key as id, unless the record carries an id
WithId(id, rec) ==
    [k \in DOMAIN rec \cup {"id"} |->
         IF k \in DOMAIN rec THEN rec[k] ELSE FormatInt(id)]

\* The keys of a snapshot in the order Object.entries lists them
RECURSIVE KeysAscending(_)
KeysAscending(keys) ==
    IF keys = {} THEN <<>>
    ELSE LET least == CHOOSE k \in keys : \A j \in keys : k <= j
         IN  <<least>> \o KeysAscending(keys \ {least})

\* Object.entries(data).map(([id, record]) => ({ id, ...record }))
Entries(path) ==
    LET keys == KeysAscending(DOMAIN path)
    IN  [i \in 1..Len(keys) |-> WithId(keys[i], path[keys[i]])]

\* snapshot.exists()
Exists(path) == DOMAIN path # {}

\* What await get(ref) does: it resolves with the snapshot of the path or
\* rejects with an error
GetOutcomes(path) ==
    {[ok |-> TRUE, val |-> path]}
        \cup {[ok |-> FALSE, error |-> message] :
                  message \in StoreErrorMessages}

\* How an async function ends
Resolved(value) == [resolved |-> TRUE, value |-> value]
Rejected(error) == [resolved |-> FALSE, error |-> error]

\* A reader that lets the error of get() escape
getUserAnalyses_Rethrow(got) ==
    IF got.ok
    THEN Resolved(IF Exists(got.val) THEN Entries(got.val) ELSE <<>>)
    ELSE Rejected(got.error)

\* getUserAnalyses, part_000 lines 286-304
getUserAnalyses(got) ==
    IF got.ok
    THEN Resolved(IF Exists(got.val) THEN Entries(got.val) ELSE <<>>)
    ELSE Resolved(<<>>)

\* getUserEyeTests, part_000 lines 367-385
getUserEyeTests(got) ==
    IF got.ok
    THEN Resolved(IF Exists(got.val) THEN Entries(got.val) ELSE <<>>)
    ELSE Resolved(<<>>)

\* The UTF-16 code unit of the characters of a date
CharCode(c) == IF c = "-" THEN 45 ELSE 48 + DigitVal(c)

\* a <= b on strings: by code units, a prefix first
RECURSIVE StringLe(_, _)
StringLe(a, b) ==
    IF a = <<>> THEN TRUE
    ELSE IF b = <<>> THEN FALSE
    ELSE IF Head(a) = Head(b) THEN StringLe(Tail(a), Tail(b))
    ELSE CharCode(Head(a)) < CharCode(Head(b))

\* The filter of the two date-range readers
InDateRange(records, startDate, endDate) ==
    SelectSeq(records, LAMBDA record :
                  /\ StringLe(startDate, record.date)
                  /\ StringLe(record.date, endDate))

\* getAnalysesForDateRange, part_000 lines 306-316
getAnalysesForDateRange(startDate, endDate, got) ==
    LET all == getUserAnalyses(got)
    IN  IF all.resolved
        THEN Resolved(InDateRange(all.value, startDate, endDate))
        ELSE Resolved(<<>>)

\* getEyeTestsForDateRange, part_000 lines 387-397
getEyeTestsForDateRange(startDate, endDate, got) ==
    LET all == getUserEyeTests(got)
    IN  IF all.resolved
        THEN Resolved(InDateRange(all.value, startDate, endDate))
        ELSE Resolved(<<>>)

\* The reports whose records the callers save
SavedReports == { <<Row(0, left_eye, 280)>>, <<Row(1, right_eye, 160)>> }

SavedAnalyses ==
    { BuildAnalysisData(parseResultData(JoinLines(r)), undefined, undefined,
                        DefaultSettings, Frac(0, 1)) : r \in SavedReports }

SavedEyeTests ==
    { BuildEyeTestData(parseResultData(JoinLines(r)), undefined, undefined,
                       "pupil_analysis", 30, DefaultSettings, Frac(0, 1)) :
          r \in SavedReports }

\* The dates the range readers are asked for: the first day of the clock and
\* the day before it
ReadDates == { ISODate(0 - MsPerDay), ISODate(0) }

InitStore ==
    /\ LaterOff
    /\ ParserOff
    /\ StatsOff
    /\ ClassifyOff
    /\ entry = "store"
    /\ pc = "idle"
    /\ resultTextIn = undefined
    /\ settingsIn = DefaultSettings
    /\ analysisUrlIn = undefined
    /\ metadataIn = undefined
    /\ analysisRec = undefined
    /\ eyeTestRec = undefined
    /\ saveResult = undefined
    /\ eyeTestResult = undefined
    /\ result = undefined
    /\ analyses = <<>>
    /\ eyeTests = <<>>
    /\ setCalls = [analyses |-> 0, eyeTests |-> 0]
    /\ now = 0

\* No save is in flight: none was called yet, or the last one has answered
\* ("eyeTest" after saveAnalysisResult, "return" after saveEyeTestResult)
NoSaveInFlight == pc \in {"idle", "eyeTest", "return"}

\* A caller calls saveAnalysisResult with a record
CallSaveAnalysisResult ==
    /\ entry = "store"
    /\ NoSaveInFlight
    /\ setCalls.analyses + setCalls.eyeTests < MaxSaves
    /\ analysisRec' \in SavedAnalyses
    /\ eyeTestRec' = undefined
    /\ saveResult' = undefined
    /\ eyeTestResult' = undefined
    /\ pc' = "saveAnalysis"
    /\ UNCHANGED <<entry, resultTextIn, settingsIn, analysisUrlIn, metadataIn,
                   result, storeVars, parserVars,
                   statsVars, classifyVars, laterVars>>

\* A caller calls saveEyeTestResult with a record
CallSaveEyeTestResult ==
    /\ entry = "store"
    /\ NoSaveInFlight
    /\ setCalls.analyses + setCalls.eyeTests < MaxSaves
    /\ eyeTestRec' \in SavedEyeTests
    /\ analysisRec' = undefined
    /\ saveResult' = undefined
    /\ eyeTestResult' = undefined
    /\ pc' = "saveEyeTest"
    /\ UNCHANGED <<entry, resultTextIn, settingsIn, analysisUrlIn, metadataIn,
                   result, storeVars, parserVars,
                   statsVars, classifyVars, laterVars>>

\* getUserAnalyses()
GetUserAnalyses ==
    /\ entry = "store"
    /\ \E got \in GetOutcomes(analyses) :
        /\ readCall' = [fn |-> "getUserAnalyses"]
        /\ readGot' = got
        /\ readAnswer' = getUserAnalyses(got)
    /\ UNCHANGED besidesReader

\* getAnalysesForDateRange(startDate, endDate)
GetAnalysesForDateRange ==
    /\ entry = "store"
    /\ \E got \in GetOutcomes(analyses), startDate, endDate \in ReadDates :
        /\ readCall' = [fn |-> "getAnalysesForDateRange",
                        startDate |-> startDate, endDate |-> endDate]
        /\ readGot' = got
        /\ readAnswer' = getAnalysesForDateRange(startDate, endDate, got)
    /\ UNCHANGED besidesReader

\* getUserEyeTests()
GetUserEyeTests ==
    /\ entry = "store"
    /\ \E got \in GetOutcomes(eyeTests) :
        /\ readCall' = [fn |-> "getUserEyeTests"]
        /\ readGot' = got
        /\ readAnswer' = getUserEyeTests(got)
    /\ UNCHANGED besidesReader

\* getEyeTestsForDateRange(startDate, endDate)
GetEyeTestsForDateRange ==
    /\ entry = "store"
    /\ \E got \in GetOutcomes(eyeTests), startDate, endDate \in ReadDates :
        /\ readCall' = [fn |-> "getEyeTestsForDateRange",
                        startDate |-> startDate, endDate |-> endDate]
        /\ readGot' = got
        /\ readAnswer' = getEyeTestsForDateRange(startDate, endDate, got)
    /\ UNCHANGED besidesReader

NextStore ==
    \/ CallSaveAnalysisResult
    \/ SaveAnalysisResult
    \/ CallSaveEyeTestResult
    \/ SaveEyeTestResult
    \/ Tick
    \/ GetUserAnalyses
    \/ GetAnalysesForDateRange
    \/ GetUserEyeTests
    \/ GetEyeTestsForDateRange

SpecStore == InitStore /\ [][NextStore]_vars

----------------------------------------------------------------------------
(* DashboardScreen: the two subscriptions and loadAnalyses, over the store
   under repeated saves *)

\* What onValue hands to the callback of a subscription, part_000 lines
\* 320-330: the records of the path, or [] when the snapshot does not exist
Snapshot(path) == IF Exists(path) THEN Entries(path) ELSE <<>>

\* How many records satisfy a test
CountWhere(records, Test(_)) == Len(SelectSeq(records, Test))

\* calculateStats, dashboard.tsx lines 130-147: the four counters
calculateStats(analysesData, eyeTestsData, clock) ==
    LET day     == ISODate(clock)
        weekAgo == ISODate(clock - 7 * 24 * 60 * 60 * 1000)
    IN  [todayCount |->
             CountWhere(analysesData, LAMBDA a : a.date = day),
         weekCount |->
             CountWhere(analysesData, LAMBDA a : StringLe(weekAgo, a.date)),
         eyeTestTodayCount |->
             CountWhere(eyeTestsData, LAMBDA e : e.date = day),
         eyeTestWeekCount |->
             CountWhere(eyeTestsData,
                        LAMBDA e : e.date # <<>> /\ StringLe(weekAgo, e.date))]

\* The record a state holds after the check for a new record, lines 69-79:
\* the handler belongs to the first render, where the collection is empty
\* and the last record is null
NewestOr(previous, updated) ==
    IF Len(updated) > 0 THEN updated[Len(updated)] ELSE previous

InitDashboard ==
    /\ TrendOff
    /\ BlinkOff
    /\ ReactionOff
    /\ ReaderOff
    /\ PupilOff
    /\ ParserOff
    /\ StatsOff
    /\ ClassifyOff
    /\ entry = "store"
    /\ pc = "idle"
    /\ resultTextIn = undefined
    /\ settingsIn = DefaultSettings
    /\ analysisUrlIn = undefined
    /\ metadataIn = undefined
    /\ analysisRec = undefined
    /\ eyeTestRec = undefined
    /\ saveResult = undefined
    /\ eyeTestResult = undefined
    /\ result = undefined
    /\ analyses = <<>>
    /\ eyeTests = <<>>
    /\ setCalls = [analyses |-> 0, eyeTests |-> 0]
    /\ now = 0
    /\ dashAnalyses = <<>>
    /\ dashEyeTests = <<>>
    /\ todayCount = 0
    /\ weekCount = 0
    /\ eyeTestTodayCount = 0
    /\ eyeTestWeekCount = 0
    /\ lastAnalysis = null
    /\ lastEyeTest = null
    /\ deliveredAnalyses = <<>>
    /\ deliveredEyeTests = <<>>
    /\ handled = "none"
    /\ allAnalyses = <<>>
    /\ lpc = "idle"

\* The four counters after calculateStats
SetCounts(counts) ==
    /\ todayCount' = counts.todayCount
    /\ weekCount' = counts.weekCount
    /\ eyeTestTodayCount' = counts.eyeTestTodayCount
    /\ eyeTestWeekCount' = counts.eyeTestWeekCount

\* A handler that adds the delivered records to the cached ones
OnAnalysisUpdate_Merge ==
    /\ lpc # "off"
    /\ deliveredAnalyses # <<Snapshot(analyses)>>
    /\ \E updatedAnalyses \in {Snapshot(analyses)} :
        /\ deliveredAnalyses' = <<updatedAnalyses>>
        /\ dashAnalyses' = dashAnalyses \o updatedAnalyses
        /\ SetCounts(calculateStats(updatedAnalyses, <<>>, now))
        /\ lastAnalysis' = NewestOr(lastAnalysis, updatedAnalyses)
    /\ handled' = "analyses"
    /\ UNCHANGED <<dashEyeTests, lastEyeTest, deliveredEyeTests, allAnalyses,
                   lpc, besidesDashboard>>

\* The analyses subscription delivers (part_000 lines 318-334) and the
\* callback of dashboard.tsx lines 64-80 runs.  The callback is the one of
\* the first render (the effect has no dependencies): its eyeTests and
\* analyses are the empty ones and its lastAnalysis is null.
OnAnalysisUpdate ==
    /\ lpc # "off"
    /\ deliveredAnalyses # <<Snapshot(analyses)>>
    /\ \E updatedAnalyses \in {Snapshot(analyses)} :
        /\ deliveredAnalyses' = <<updatedAnalyses>>
        /\ dashAnalyses' = updatedAnalyses
        /\ SetCounts(calculateStats(updatedAnalyses, <<>>, now))
        /\ lastAnalysis' = NewestOr(lastAnalysis, updatedAnalyses)
    /\ handled' = "analyses"
    /\ UNCHANGED <<dashEyeTests, lastEyeTest, deliveredEyeTests, allAnalyses,
                   lpc, besidesDashboard>>

\* The eye-test subscription delivers (part_000 lines 399-415) and the
\* callback of dashboard.tsx lines 83-99 runs
OnEyeTestUpdate ==
    /\ lpc # "off"
    /\ deliveredEyeTests # <<Snapshot(eyeTests)>>
    /\ \E updatedEyeTests \in {Snapshot(eyeTests)} :
        /\ deliveredEyeTests' = <<updatedEyeTests>>
        /\ dashEyeTests' = updatedEyeTests
        /\ SetCounts(calculateStats(<<>>, updatedEyeTests, now))
        /\ lastEyeTest' = NewestOr(lastEyeTest, updatedEyeTests)
    /\ handled' = "eyeTests"
    /\ UNCHANGED <<dashAnalyses, lastAnalysis, deliveredAnalyses, allAnalyses,
                   lpc, besidesDashboard>>

\* loadAnalyses, dashboard.tsx line 120: await getUserAnalyses()
LoadAnalyses_GetUserAnalyses ==
    /\ lpc = "idle"
    /\ \E got \in GetOutcomes(analyses) :
           allAnalyses' = getUserAnalyses(got).value
    /\ lpc' = "getUserEyeTests"
    /\ UNCHANGED <<dashAnalyses, dashEyeTests, todayCount, weekCount,
                   eyeTestTodayCount, eyeTestWeekCount, lastAnalysis,
                   lastEyeTest, deliveredAnalyses, deliveredEyeTests, handled,
                   besidesDashboard>>

\* loadAnalyses, dashboard.tsx lines 121-124: await getUserEyeTests(), then
\* the two collections and the counters are set
LoadAnalyses_Set ==
    /\ lpc = "getUserEyeTests"
    /\ \E got \in GetOutcomes(eyeTests) :
        \E allEyeTests \in {getUserEyeTests(got).value} :
            /\ dashAnalyses' = allAnalyses
            /\ dashEyeTests' = allEyeTests
            /\ SetCounts(calculateStats(allAnalyses, allEyeTests, now))
    /\ handled' = "loadAnalyses"
    /\ lpc' = "idle"
    /\ UNCHANGED <<lastAnalysis, lastEyeTest, deliveredAnalyses,
                   deliveredEyeTests, allAnalyses, besidesDashboard>>

NextDashboard ==
    \/ CallSaveAnalysisResult
    \/ SaveAnalysisResult
    \/ CallSaveEyeTestResult
    \/ SaveEyeTestResult
    \/ Tick
    \/ OnAnalysisUpdate
    \/ OnEyeTestUpdate
    \/ LoadAnalyses_GetUserAnalyses
    \/ LoadAnalyses_Set

SpecDashboard == InitDashboard /\ [][NextDashboard]_vars

----------------------------------------------------------------------------
(* generatePupilAnalysis of the functions (part_004) and its simulation
   simulateGeneratePupilAnalysis (part_002).  Of the value returned, success,
   error and data.metadata without its two clock readings are kept. *)

\* The endpoints VIDEO_UPLOAD_API.md lists, in its order
DocumentedEndpoints ==
    << "/process_media_unified", "/process_video_simple", "/predict_1",
       "/predict" >>

\* endpointsToTry of simulateGeneratePupilAnalysis, part_002 lines 356-361
endpointsToTry ==
    << "/process_media_unified", "/process_video_simple", "/predict_1",
       "/predict" >>

\* a || b for an optional string
OrElse(a, b) == IF a = undefined \/ a = Given("") THEN b ELSE a.value

\* a || b for an optional boolean
OrElseBool(a, b) == IF a = undefined \/ a = Given(FALSE) THEN b ELSE a.value

\* The params client.predict is called with
PredictParams(data, inputKey) ==
    [inputKey |-> inputKey,
     pupil_selection |-> OrElse(data.pupil_selection, "both"),
     tv_model |-> OrElse(data.tv_model, "ResNet18"),
     blink_detection |-> IF data.blink_detection # undefined
                         THEN data.blink_detection.value ELSE TRUE]

\* What a call of client.predict does: it resolves with data, resolves
\* without data, or rejects
PredictOutcomes == {"data", "noData", "error"}

\* One call of client.predict and what it did
PredictCall(endpoint, params, outcome) ==
    [endpoint |-> endpoint, params |-> params, outcome |-> outcome]

\* The value returned from the catch of the function
Failure(message) == [success |-> FALSE, error |-> message]

\* The value returned after the analysis, part_004 lines 604-621 and
\* part_002 lines 456-471
Success(data, workingEndpoint) ==
    [success |-> TRUE,
     data |-> [metadata |->
                  [pupilSelection |-> OrElse(data.pupil_selection, "both"),
                   tvModel |-> OrElse(data.tv_model, "ResNet18"),
                   blinkDetection |-> OrElseBool(data.blink_detection, TRUE),
                   workingEndpoint |-> workingEndpoint]]]

\* !data || !data.video_input
MissingVideoInput(data) ==
    IF data = undefined THEN TRUE
    ELSE data.video_input = undefined \/ data.video_input = Given("")

\* What stops the function before the first call of client.predict: the
\* errors of processVideoInput and of the connection
PrepareErrors ==
    { "Unsupported video input format", "Could not connect to the space" }

\* The requests: with and without video_input, options given and left out
PupilRequests ==
    [video_input : {undefined, Given("video.webm")},
     pupil_selection : {undefined, Given("left")},
     tv_model : {undefined, Given("ResNet50")},
     blink_detection : {undefined, Given(TRUE), Given(FALSE)}]

InitPupil ==
    /\ TrendOff
    /\ BlinkOff
    /\ ReactionOff
    /\ ReaderOff
    /\ DashboardOff
    /\ ParserOff
    /\ StatsOff
    /\ ClassifyOff
    /\ PipelineOff
    /\ gpEntry \in {"generatePupilAnalysis", "generatePupilAnalysisHttp",
                    "simulateGeneratePupilAnalysis"}
    /\ gpData \in PupilRequests \cup {undefined}
    /\ gpCalls = <<>>
    /\ gpNext = 1
    /\ gpResponse = undefined
    /\ gpWorkingEndpoint = undefined
    /\ gpReturn = undefined
    /\ gpc = "start"

\* part_004 lines 449-494, part_002 lines 327-352: the validation, the
\* connection and processVideoInput
Prepare ==
    /\ gpEntry # "generatePupilAnalysisHttp"
    /\ gpc = "start"
    /\ \/ /\ MissingVideoInput(gpData)
          /\ gpReturn' = Failure(<<"Missing required field: video_input">>)
          /\ gpc' = "done"
          /\ UNCHANGED gpWorkingEndpoint
       \/ /\ ~MissingVideoInput(gpData)
          /\ \E message \in PrepareErrors :
                 gpReturn' = Failure(<<message>>)
          /\ gpc' = "done"
          /\ UNCHANGED gpWorkingEndpoint
       \/ /\ ~MissingVideoInput(gpData)
          /\ gpWorkingEndpoint' =
                 IF gpEntry = "generatePupilAnalysis"
                 THEN "process_video_simple" ELSE null
          /\ gpc' = "predict"
          /\ UNCHANGED gpReturn
    /\ UNCHANGED <<gpEntry, gpData, gpCalls, gpNext, gpResponse, besidesPupil>>

\* generatePupilAnalysis, part_004 lines 497-559: the one call of
\* client.predict and its catch
GeneratePupilAnalysis_Predict ==
    /\ gpEntry = "generatePupilAnalysis"
    /\ gpc = "predict"
    /\ \E outcome \in PredictOutcomes :
        /\ gpCalls' = Append(gpCalls,
                             PredictCall("/process_media_unified",
                                         PredictParams(gpData, "media_input"),
                                         outcome))
        /\ IF outcome = "error"
           THEN /\ gpReturn' = Failure(<<"PupilSense API call failed: ",
                                         "error">>)
                /\ gpc' = "done"
                /\ UNCHANGED gpResponse
           ELSE /\ gpResponse' = [data |-> outcome = "data"]
                /\ gpc' = "finish"
                /\ UNCHANGED gpReturn
    /\ UNCHANGED <<gpEntry, gpData, gpNext, gpWorkingEndpoint, besidesPupil>>

\* simulateGeneratePupilAnalysis, part_002 lines 366-408: one iteration of
\* the loop over endpointsToTry.  The unified endpoint is called a second
\* time, with media_input, when its first call rejects.
SimulateGeneratePupilAnalysis_Try ==
    /\ gpEntry = "simulateGeneratePupilAnalysis"
    /\ gpc = "predict"
    /\ \E first, second \in PredictOutcomes :
        LET endpoint == endpointsToTry[gpNext]
            again    == endpoint = "/process_media_unified" /\ first = "error"
            outcome  == IF again THEN second ELSE first
            made     == <<PredictCall(endpoint,
                                      PredictParams(gpData, "video_input"),
                                      first)>>
                        \o (IF again
                            THEN <<PredictCall(endpoint,
                                               PredictParams(gpData,
                                                             "media_input"),
                                               second)>>
                            ELSE <<>>)
        IN  /\ again \/ second = "data"    \* no second call: one choice of it
            /\ gpCalls' = gpCalls \o made
            /\ IF outcome # "error"
               THEN /\ gpResponse' = [data |-> outcome = "data"]
                    /\ gpWorkingEndpoint' = endpoint
                    /\ gpc' = "finish"
                    /\ UNCHANGED <<gpNext, gpReturn>>
               ELSE IF gpNext = Len(endpointsToTry)
               THEN /\ gpReturn' =
                           Failure(<<"All video processing endpoints failed. Last error: ",
                                     "error">>)
                    /\ gpc' = "done"
                    /\ UNCHANGED <<gpNext, gpResponse, gpWorkingEndpoint>>
               ELSE /\ gpNext' = gpNext + 1
                    /\ UNCHANGED <<gpResponse, gpWorkingEndpoint, gpReturn,
                                   gpc>>
    /\ UNCHANGED <<gpEntry, gpData, besidesPupil>>

\* part_004 lines 567-632, part_002 lines 415-486: the test of result.data
\* and the value returned
GeneratePupilAnalysis_Return ==
    /\ gpEntry # "generatePupilAnalysisHttp"
    /\ gpc = "finish"
    /\ gpReturn' =
           IF gpResponse.data
           THEN Success(gpData, gpWorkingEndpoint)
           ELSE Failure(<<"No analysis data received from PupilSense API">>)
    /\ gpc' = "done"
    /\ UNCHANGED <<gpEntry, gpData, gpCalls, gpNext, gpResponse,
                   gpWorkingEndpoint, besidesPupil>>

\* res.status(status).json(body)
HttpResponse(status, body) == [status |-> status, body |-> body]

\* The body of the response of the catch, part_004 lines 903-909, without
\* the stack
HttpError(message) == [error |-> message]

\* generatePupilAnalysisHttp, part_004 lines 771-797: the body of the
\* request is taken apart, video_input is required, then the connection and
\* processVideoInput
GeneratePupilAnalysisHttp_Prepare ==
    /\ gpEntry = "generatePupilAnalysisHttp"
    /\ gpc = "start"
    /\ \/ /\ gpData = undefined
          /\ gpReturn' = HttpResponse(500,
                 HttpError(<<"Cannot destructure property 'video_input' of 'req.body' as it is undefined.">>))
          /\ gpc' = "done"
          /\ UNCHANGED gpWorkingEndpoint
       \/ /\ gpData # undefined
          /\ MissingVideoInput(gpData)
          /\ gpReturn' = HttpResponse(400,
                 HttpError(<<"Missing required field: video_input">>))
          /\ gpc' = "done"
          /\ UNCHANGED gpWorkingEndpoint
       \/ /\ ~MissingVideoInput(gpData)
          /\ gpReturn' = HttpResponse(500,
                 HttpError(<<"Could not connect to the space">>))
          /\ gpc' = "done"
          /\ UNCHANGED gpWorkingEndpoint
       \/ /\ ~MissingVideoInput(gpData)
          /\ gpReturn' = HttpResponse(400,
                 HttpError(<<"Failed to process video input: ",
                             "Unsupported video input format">>))
          /\ gpc' = "done"
          /\ UNCHANGED gpWorkingEndpoint
       \/ /\ ~MissingVideoInput(gpData)
          /\ gpWorkingEndpoint' = "process_video_simple"
          /\ gpc' = "predict"
          /\ UNCHANGED gpReturn
    /\ UNCHANGED <<gpEntry, gpData, gpCalls, gpNext, gpResponse, besidesPupil>>

\* generatePupilAnalysisHttp, part_004 lines 800-858: the one call of
\* client.predict; its error is thrown again and answered by the catch
GeneratePupilAnalysisHttp_Predict ==
    /\ gpEntry = "generatePupilAnalysisHttp"
    /\ gpc = "predict"
    /\ \E outcome \in PredictOutcomes :
        /\ gpCalls' = Append(gpCalls,
                             PredictCall("/process_media_unified",
                                         PredictParams(gpData, "media_input"),
                                         outcome))
        /\ IF outcome = "error"
           THEN /\ gpReturn' = HttpResponse(500,
                       HttpError(<<"HTTP PupilSense API call failed: ",
                                   "error">>))
                /\ gpc' = "done"
                /\ UNCHANGED gpResponse
           ELSE /\ gpResponse' = [data |-> outcome = "data"]
                /\ gpc' = "finish"
                /\ UNCHANGED gpReturn
    /\ UNCHANGED <<gpEntry, gpData, gpNext, gpWorkingEndpoint, besidesPupil>>

\* generatePupilAnalysisHttp, part_004 lines 860-901: the test of
\* result.data and the response
GeneratePupilAnalysisHttp_Respond ==
    /\ gpEntry = "generatePupilAnalysisHttp"
    /\ gpc = "finish"
    /\ gpReturn' =
           IF gpResponse.data
           THEN HttpResponse(200, Success(gpData, gpWorkingEndpoint))
           ELSE HttpResponse(500,
                    HttpError(<<"No analysis data received from PupilSense API">>))
    /\ gpc' = "done"
    /\ UNCHANGED <<gpEntry, gpData, gpCalls, gpNext, gpResponse,
                   gpWorkingEndpoint, besidesPupil>>

NextPupil ==
    \/ Prepare
    \/ GeneratePupilAnalysis_Predict
    \/ SimulateGeneratePupilAnalysis_Try
    \/ GeneratePupilAnalysis_Return
    \/ GeneratePupilAnalysisHttp_Prepare
    \/ GeneratePupilAnalysisHttp_Predict
    \/ GeneratePupilAnalysisHttp_Respond

SpecPupil == InitPupil /\ [][NextPupil]_vars

----------------------------------------------------------------------------
(* Claims about parseResultData *)

\* The sample a well-formed line stands for
ExpectedSample(line) ==
    LET t == CHOOSE t \in WellFormedTriples :
                 Row(t.frame, t.label, t.diameter) = line
    IN  [frame |-> t.frame,
         eye |-> IF t.label \in {left_eye, sLeft, sLeftCap} THEN left_eye
                 ELSE right_eye,
         diameter |-> t.diameter]

OnlyWellFormed == \A i \in 1..Len(report) : report[i] \in WellFormedRows

\* C4: a report made only of N well-formed "frame,eye,diameter" lines is
\* parsed to exactly N samples, the i-th sample carrying the frame and the
\* diameter of the i-th line and its eye normalized to left_eye / right_eye.
C4_RoundTripWellFormed ==
    (ppc = "done" /\ OnlyWellFormed) =>
        pupilData = [i \in 1..Len(report) |-> ExpectedSample(report[i])]

C4_Witness ==
    /\ ppc = "done"
    /\ OnlyWellFormed
    /\ Len(report) >= 2
    /\ report[1] = Row(12, sLeft, 5)
    /\ report[2] = Row(5, sRightCap, 261)
    /\ Len(pupilData) = Len(report)

\* C5: malformed data rows are dropped and change nothing else: the samples
\* of a report equal the samples of the report without its malformed rows.
C5_MalformedRowsDropped ==
    ppc = "done" =>
        pupilData =
            parseResultData(JoinLines(
                SelectSeq(report, LAMBDA l : l \notin MalformedRows))).pupilData

----------------------------------------------------------------------------
(* Claims about calculateEyeStats *)

HasSamplesOf(d, e) == \E i \in 1..Len(d) : d[i].eye = e

DiametersOf(d, e) == { d[i].diameter : i \in { j \in 1..Len(d) : d[j].eye = e } }

C6_WitnessEmpty ==
    /\ spc = "done"
    /\ statData # <<>>
    /\ ~HasSamplesOf(statData, statEye)
    /\ statResult = ZeroStats

\* The samples of d that belong to eye e, in order
OnlyEye(d, e) == SelectSeq(d, LAMBDA x : x.eye = e)

\* The sum over i of (N * x[i] - S)^2, that is N^2 times the sum of the
\* squared deviations from the mean S / N
RECURSIVE ScaledSqDev(_, _, _)
ScaledSqDev(d, N, S) ==
    IF d = <<>> THEN 0
    ELSE (N * Head(d).diameter - S) * (N * Head(d).diameter - S)
             + ScaledSqDev(Tail(d), N, S)

RECURSIVE SumDiameters(_)
SumDiameters(d) ==
    IF d = <<>> THEN 0 ELSE Head(d).diameter + SumDiameters(Tail(d))

\* C7: for N > 0 samples of the eye, mean = (sum of diameters) / N and
\* std^2 = (sum of squared deviations from the mean) / N, never / (N - 1);
\* samples of the other eye do not influence the result; the diameters
\* [2.0, 2.0, 4.0, 4.0] give mean 3.0 and std 1.0.
C7_PopulationVariance ==
    (spc = "done" /\ HasSamplesOf(statData, statEye)) =>
        LET own == OnlyEye(statData, statEye)
            N   == Len(own)
            S   == SumDiameters(own)
        IN  /\ statResult.mean.n * N = S * statResult.mean.d
            /\ statResult.std.sqrtOf.n * N * N * N
                   = ScaledSqDev(own, N, S) * statResult.std.sqrtOf.d
            /\ statResult = calculateEyeStats(own, statEye)
            /\ ([i \in 1..N |-> own[i].diameter] = <<200, 200, 400, 400>>
                   => statResult.mean = RInt(300) /\ statResult.std = Sqrt(RInt(10000)))

C7_Witness ==
    /\ spc = "done"
    /\ [i \in 1..Len(statData) |-> statData[i].diameter] = <<200, 200, 400, 400>>
    /\ \A i \in 1..Len(statData) : statData[i].eye = statEye
    /\ statResult.mean = RInt(300)
    /\ statResult.std = Sqrt(RInt(10000))

C7_WitnessOtherEye ==
    /\ spc = "done"
    /\ HasSamplesOf(statData, left_eye)
    /\ HasSamplesOf(statData, right_eye)
    /\ statResult.std.sqrtOf # RInt(0)

----------------------------------------------------------------------------
(* Claims about determineFatigueLevel *)

\* An eye counts when its statistics are present and its mean is above 0
Eligible(eyeStats) == eyeStats # undefined /\ RLt(RInt(0), eyeStats.mean)

\* The average of the means of the eligible eyes, one of them at least
EligibleAverage(l, r) ==
    IF Eligible(l) /\ Eligible(r) THEN RDivInt(RAdd(l.mean, r.mean), 2)
    ELSE IF Eligible(l) THEN l.mean
    ELSE r.mean

\* The level the eligible eyes call for
LevelOfEligible(l, r) ==
    IF ~Eligible(l) /\ ~Eligible(r) THEN "moderate"
    ELSE IF RLt(EligibleAverage(l, r), RInt(220)) THEN "high"
    ELSE IF RLt(RInt(260), EligibleAverage(l, r)) THEN "low"
    ELSE "moderate"

\* The records assembled so far by the running call
AssembledRecords == {analysisRec, eyeTestRec} \ {undefined}

\* The records the store holds
StoredRecords ==
    {analyses[k] : k \in DOMAIN analyses} \cup {eyeTests[k] : k \in DOMAIN eyeTests}

\* C1: in every record assembled by processAndSaveAnalysis or
\* processEyeTestResult the fatigue level is the one given by the average of
\* the means of the eyes that have samples and a mean above 0; an eye
\* without samples does not enter the average as a zero.
C1_LevelFromEligibleEyes ==
    \A rec \in AssembledRecords :
        LET l == calculateEyeStats(rec.pupilData, left_eye)
            r == calculateEyeStats(rec.pupilData, right_eye)
        IN  (Eligible(l) \/ Eligible(r)) =>
                rec.fatigueLevel = LevelOfEligible(l, r)

\* C1, second part: determineFatigueLevel agrees with the function of the
\* same name of test-sample-data.js on every input.
C1_AgreesWithReference ==
    cpc = "done" => level = determineFatigueLevelRef(argLeftStats, argRightStats)

\* C2: with avg the average of the eligible eyes, the level is 'high' iff
\* avg < 2.2, 'low' iff avg > 2.6 and 'moderate' iff 2.2 <= avg <= 2.6.
C2_Thresholds ==
    (cpc = "done" /\ (Eligible(argLeftStats) \/ Eligible(argRightStats))) =>
        LET avg == EligibleAverage(argLeftStats, argRightStats)
        IN  /\ (level = "high") <=> RLt(avg, RInt(220))
            /\ (level = "low") <=> RLt(RInt(260), avg)
            /\ (level = "moderate") <=>
                   (RLe(RInt(220), avg) /\ RLe(avg, RInt(260)))

\* C2 restricted to inputs whose present statistics all have a mean above 0
C2_ThresholdsWhenAllPresentEligible ==
    (/\ cpc = "done"
     /\ Eligible(argLeftStats) \/ Eligible(argRightStats)
     /\ argLeftStats = undefined \/ Eligible(argLeftStats)
     /\ argRightStats = undefined \/ Eligible(argRightStats)) =>
        LET avg == EligibleAverage(argLeftStats, argRightStats)
        IN  /\ (level = "high") <=> RLt(avg, RInt(220))
            /\ (level = "low") <=> RLt(RInt(260), avg)
            /\ (level = "moderate") <=>
                   (RLe(RInt(220), avg) /\ RLe(avg, RInt(260)))

\* C3: the level is 'moderate' whenever no eye is eligible, that is whenever
\* each of the two statistics is absent or has mean 0.
C3_ModerateWhenNoEligibleEye ==
    (cpc = "done" /\ ~Eligible(argLeftStats) /\ ~Eligible(argRightStats)) =>
        level = "moderate"

----------------------------------------------------------------------------
(* Claims about the assembled and persisted records *)

ParsedSamples == parseResultData(resultText).pupilData

FramesOf(samples) == { samples[i].frame : i \in 1..Len(samples) }

\* C8: frameCount of every assembled or persisted record is the largest
\* frame of the parsed samples plus one; frames {0, 1, 2, 5} give 6.
C8_FrameCount ==
    \A frames \in {FramesOf(ParsedSamples)} :
        \A rec \in AssembledRecords \cup StoredRecords :
            /\ rec.frameCount - 1 \in frames
            /\ \A f \in frames : f <= rec.frameCount - 1
            /\ (frames = {0, 1, 2, 5} => rec.frameCount = 6)

C8_Witness ==
    /\ pc = "done"
    /\ FramesOf(ParsedSamples) = {0, 1, 2, 5}
    /\ Len(ParsedSamples) = 4
    /\ analysisRec # undefined /\ analysisRec.frameCount = 6
    /\ eyeTestRec # undefined /\ eyeTestRec.frameCount = 6
    /\ \E k \in DOMAIN analyses : analyses[k].frameCount = 6

\* C9: in every assembled and persisted record the statistics of an eye are
\* present if and only if the parsed samples contain a sample of that eye.
C9_StatsPresentIffSamples ==
    \A samples \in {ParsedSamples} :
        /\ \A rec \in AssembledRecords :
              /\ (rec.leftEyeStats # undefined) <=> HasSamplesOf(samples, left_eye)
              /\ (rec.rightEyeStats # undefined) <=> HasSamplesOf(samples, right_eye)
        /\ \A rec \in StoredRecords :
              /\ ("leftEyeStats" \in DOMAIN rec) <=> HasSamplesOf(samples, left_eye)
              /\ ("rightEyeStats" \in DOMAIN rec) <=> HasSamplesOf(samples, right_eye)

\* C10: when the call is made with a text and the text yields no sample,
\* the call returns success false with an error message and no set() is
\* issued on either path.
C10_NoDataNoWrite ==
    (resultTextIn = Given(resultText) /\ ParsedSamples = <<>>) =>
        /\ setCalls = [analyses |-> 0, eyeTests |-> 0]
        /\ analyses = <<>>
        /\ eyeTests = <<>>
        /\ pc \notin {"saveAnalysis", "eyeTest", "saveEyeTest"}
        /\ pc = "done" =>
               /\ result.success = FALSE
               /\ result.error = "No valid pupil data found in results"

C10_Witness ==
    /\ pc = "done"
    /\ Len(report) >= 2
    /\ ParsedSamples = <<>>
    /\ result = NoValidDataResult
    /\ setCalls = [analyses |-> 0, eyeTests |-> 0]

----------------------------------------------------------------------------
(* Claims about the failures of the store *)

\* The answer of the save of the record the call was made for
OwnSaveAnswer == IF entry = "analysis" THEN saveResult ELSE eyeTestResult

\* The call issued a set() for its own record and the set() was rejected
OwnWriteFailed ==
    /\ pc = "done"
    /\ IF entry = "analysis" THEN setCalls.analyses = 1
                              ELSE setCalls.eyeTests = 1
    /\ OwnSaveAnswer.success = FALSE

\* C11: when the set() of the record the call assembles is rejected, the
\* call returns success false with the message of the store's error and no
\* record data, and a call issues at most one set() per store path.
C11_WriteFailureReported ==
    /\ setCalls.analyses <= 1
    /\ setCalls.eyeTests <= 1
    /\ OwnWriteFailed =>
          /\ DOMAIN result = {"success", "error"}
          /\ result.success = FALSE
          /\ result.error = OwnSaveAnswer.error
          /\ result.error \in StoreErrorMessages

C11_Witness ==
    /\ OwnWriteFailed
    /\ entry = "analysis"
    /\ result = StoreFailure("PERMISSION_DENIED")
    /\ setCalls.analyses = 1
    /\ analyses = <<>>
    /\ analysisRec # undefined

----------------------------------------------------------------------------
(* Claims about the trend of the day *)

\* The sum of xs[i] over the indices i of a set
RECURSIVE SumAt(_, _)
SumAt(xs, indices) ==
    IF indices = {} THEN RInt(0)
    ELSE LET i == CHOOSE i \in indices : TRUE
         IN  RAdd(xs[i], SumAt(xs, indices \ {i}))

\* The mean of the last floor(n/2) values minus the mean of the others
DeltaOf(xs) ==
    LET n      == Len(xs)
        later  == { i \in 1..n : i > n - (n \div 2) }
        early  == (1..n) \ later
    IN  RSub(RDivInt(SumAt(xs, later), Cardinality(later)),
             RDivInt(SumAt(xs, early), Cardinality(early)))

\* The mean of the squares minus the square of the mean
VarianceOf(xs) ==
    LET n       == Len(xs)
        squares == [i \in 1..n |-> RMul(xs[i], xs[i])]
        mean    == RDivInt(SumAt(xs, 1..n), n)
    IN  RSub(RDivInt(SumAt(squares, 1..n), n), RMul(mean, mean))

\* The variability is above 0.15 mm
VariabilityAbove(xs) == RLt(RInt(15 * 15), VarianceOf(xs))

HalfMean(xs, from, to) ==
    RDivInt(SumAt(xs, from..to), to - from + 1)

\* C12: generateConclusions decides in a fixed order, the first match wins:
\* fewer than 2 points 'insufficient', delta < -0.1 'declining', delta > 0.1
\* 'improving', variability > 0.15 'variable', otherwise 'stable'; a trend
\* beyond 0.1 is never 'variable' or 'stable', a delta of exactly 0.1 or -0.1
\* is never 'improving' or 'declining', four points of half means 2.0 and
\* 2.5 are 'improving', equal half means with variability <= 0.15 'stable'.
C12_FirstMatchWins ==
    tpc = "done" =>
        LET xs    == PupilSizes(trendData)
            n     == Len(xs)
            trend == conclusion.trend
        IN  /\ trend \in {"insufficient", "declining", "improving",
                          "variable", "stable"}
            /\ (n < 2) <=> (trend = "insufficient")
            /\ n >= 2 =>
                  LET delta == DeltaOf(xs)
                      below == RLt(delta, RInt(0 - 10))
                      above == RLt(RInt(10), delta)
                  IN  /\ below <=> (trend = "declining")
                      /\ above <=> (trend = "improving")
                      /\ (~below /\ ~above /\ VariabilityAbove(xs))
                             <=> (trend = "variable")
                      /\ (~below /\ ~above /\ ~VariabilityAbove(xs))
                             <=> (trend = "stable")
                      /\ (below \/ above) => trend \notin {"variable", "stable"}
                      /\ delta \in {RInt(10), RInt(0 - 10)} =>
                             trend \notin {"improving", "declining"}
                      /\ (n = 4 /\ HalfMean(xs, 1, 2) = RInt(200)
                                /\ HalfMean(xs, 3, 4) = RInt(250)) =>
                             trend = "improving"
                      /\ (delta = RInt(0) /\ ~VariabilityAbove(xs)) =>
                             trend = "stable"

\* Four points of half means 2.0 and 2.5
C12_Witness ==
    /\ tpc = "done"
    /\ Len(trendData) = 4
    /\ HalfMean(PupilSizes(trendData), 1, 2) = RInt(200)
    /\ HalfMean(PupilSizes(trendData), 3, 4) = RInt(250)
    /\ conclusion.trend = "improving"

\* A trend beyond 0.1 with a variability above 0.15
C12_WitnessTrendBeforeVariability ==
    /\ tpc = "done"
    /\ Len(trendData) >= 2
    /\ RLt(DeltaOf(PupilSizes(trendData)), RInt(0 - 10))
    /\ VariabilityAbove(PupilSizes(trendData))
    /\ conclusion.trend = "declining"

\* A delta of exactly 0.1, and a variability of exactly 0.15
C12_WitnessAtThresholds ==
    /\ tpc = "done"
    /\ Len(trendData) >= 2
    /\ \/ /\ DeltaOf(PupilSizes(trendData)) = RInt(10)
          /\ conclusion.trend = "stable"
       \/ /\ VarianceOf(PupilSizes(trendData)) = RInt(225)
          /\ conclusion.trend = "stable"

C12_WitnessVariable ==
    /\ tpc = "done"
    /\ Len(trendData) >= 2
    /\ DeltaOf(PupilSizes(trendData)) = RInt(0)
    /\ conclusion.trend = "variable"

\* The number of places of a sequence that hold r
CountOf(records, r) == Cardinality({ i \in DOMAIN records : records[i] = r })

\* C13: the series holds the records of today and no other, in ascending
\* order of timestamp whatever the order of delivery; for two points or
\* more the first half is the ceil(n/2) earliest points, the second half the
\* other floor(n/2), and delta is the mean of the second half minus the
\* mean of the first.
C13_HalvesOfToday ==
    tpc \in {"empty", "chartData", "conclude", "done"} =>
        LET n == Len(todayAnalyses)
        IN  /\ \A i \in 1..n : todayAnalyses[i].date = today
            /\ \A r \in ChartRecords :
                  CountOf(todayAnalyses, r) =
                      IF r.date = today THEN CountOf(chartAnalyses, r) ELSE 0
            /\ \A i \in 1..n : \A j \in 1..n :
                  i < j => todayAnalyses[i].timestamp <= todayAnalyses[j].timestamp
            /\ (tpc \in {"conclude", "done"} /\ n >= 2) =>
                  LET xs == [i \in 1..n |-> AvgPupilDiameter(todayAnalyses[i])]
                      h  == n - (n \div 2)
                  IN  /\ PupilSizes(trendData) = xs
                      /\ 2 * h \in {n, n + 1}
                      /\ PupilTrend(trendData) =
                             RSub(HalfMean(xs, h + 1, n), HalfMean(xs, 1, h))
                      /\ tpc = "done" =>
                             (conclusion.trend = "improving" <=>
                                  RLt(RInt(10),
                                      RSub(HalfMean(xs, h + 1, n),
                                           HalfMean(xs, 1, h))))

\* Three records of today delivered latest first, the middle one differing
\* from the last
C13_Witness ==
    /\ tpc = "done"
    /\ Len(chartAnalyses) = 3
    /\ Len(todayAnalyses) = 3
    /\ chartAnalyses[1].timestamp > chartAnalyses[2].timestamp
    /\ chartAnalyses[2].timestamp > chartAnalyses[3].timestamp
    /\ todayAnalyses[1] = chartAnalyses[3]
    /\ trendData[2] # trendData[3]
    /\ trendData[1] = trendData[2]

\* A record of another day is left out
C13_WitnessOtherDay ==
    /\ tpc = "done"
    /\ Len(chartAnalyses) = 3
    /\ Len(todayAnalyses) = 2
    /\ chartAnalyses[2].date # today

----------------------------------------------------------------------------
(* Claims about the derived metrics *)

\* The samples with the frames replaced by those of f
WithFrames(samples, f) ==
    [i \in 1..Len(samples) |-> [samples[i] EXCEPT !.frame = f[i]]]

\* C14: blinkCount is the number of places i after the first whose sample
\* is of the eye of the sample before it and lies more than 0.5 below it; a
\* drop of exactly 0.5, a drop between two eyes and a rise never count, the
\* frames play no part, and diameters 2.5, 2.5, 1.9, 1.8 of one eye count 1.
C14_BlinkCount ==
    bpc = "done" =>
        LET n      == Len(blinkData)
            drops  == { i \in 2..n :
                          /\ blinkData[i].eye = blinkData[i - 1].eye
                          /\ blinkData[i - 1].diameter
                                 - blinkData[i].diameter > 50 }
        IN  /\ blinkStats.blinkCount = Cardinality(drops)
            /\ \A i \in 2..n :
                  (\/ blinkData[i - 1].diameter - blinkData[i].diameter = 50
                   \/ blinkData[i].eye # blinkData[i - 1].eye
                   \/ blinkData[i].diameter >= blinkData[i - 1].diameter)
                      => blinkStats.blinkCount
                             = Cardinality(drops \ {i})
            /\ \A f \in [1..n -> {0, 7}] :
                  calculateBlinkStats(WithFrames(blinkData, f), blinkDuration)
                      = blinkStats
            /\ blinkData = blinkExample => blinkStats.blinkCount = 1

C14_Witness ==
    /\ bpc = "done"
    /\ blinkData = blinkExample
    /\ blinkStats.blinkCount = 1

\* A drop of exactly 0.5 and then a rise, frames out of order, no blink
\* counted
C14_WitnessNoBlink ==
    /\ bpc = "done"
    /\ Len(blinkData) = 3
    /\ blinkData[1].diameter - blinkData[2].diameter = 50
    /\ blinkData[1].eye = blinkData[2].eye
    /\ blinkData[2].eye = blinkData[3].eye
    /\ blinkData[3].diameter > blinkData[2].diameter
    /\ blinkData[1].frame > blinkData[2].frame
    /\ blinkStats.blinkCount = 0

C14_WitnessCrossEye ==
    /\ bpc = "done"
    /\ Len(blinkData) = 2
    /\ blinkData[1].diameter - blinkData[2].diameter > 50
    /\ blinkData[1].eye # blinkData[2].eye
    /\ blinkStats.blinkCount = 0

\* The reaction times of the records assembled or stored and of the two
\* functions applied
ReactionTimes ==
    { rec.reactionTime : rec \in AssembledRecords \cup StoredRecords }
        \cup { r.reactionTime : r \in {rtAnalysis, rtEyeTest} \ {undefined} }

\* C15: the reaction time of every record assembled, of either kind, for
\* every level, average pupil size and random draw, is an integer of at
\* least 200.
C15_ReactionTimeAtLeast200 ==
    \A t \in ReactionTimes : t \in Int /\ t >= 200

\* The floor of 200 at work: a large pupil and the analysis variant
C15_Witness ==
    /\ rtAnalysis # undefined
    /\ rtEyeTest # undefined
    /\ rtAvgPupilSize # undefined
    /\ generateMockReactionTime_NoFloor(rtLevel, rtAvgPupilSize, rtRandom) < 200
    /\ rtAnalysis.reactionTime = 200
    /\ rtEyeTest.reactionTime = 225

\* A record of each kind assembled and stored with its reaction time
C15_WitnessRecords ==
    /\ pc = "done"
    /\ \E k \in DOMAIN analyses : analyses[k].reactionTime >= 200
    /\ \E k \in DOMAIN eyeTests : eyeTests[k].reactionTime >= 200
    /\ analysisRec.reactionTime # eyeTestRec.reactionTime

----------------------------------------------------------------------------
(* Claims about the sample report of loadSampleAnalysisData *)

\* The record processAndSaveAnalysis assembled of the sample report
SampleRecordAssembled ==
    /\ entry = "analysis"
    /\ report = sampleAnalysisReport
    /\ analysisRec # undefined

\* C16 as claimed: the record assembled of the sample report of
\* loadSampleAnalysisData has the fatigue level 'high' and the statistics of
\* both eyes.
C16_SampleLevelHigh ==
    SampleRecordAssembled =>
        /\ analysisRec.fatigueLevel = "high"
        /\ analysisRec.leftEyeStats # undefined
        /\ analysisRec.rightEyeStats # undefined

\* C16 as amended: the record assembled of the sample report of
\* loadSampleAnalysisData has the fatigue level 'moderate', the average of
\* the means of its two eyes lying between 2.2 and 2.6, and the statistics
\* of both eyes.
C16_SampleLevelModerate ==
    SampleRecordAssembled =>
        /\ analysisRec.fatigueLevel = "moderate"
        /\ analysisRec.leftEyeStats # undefined
        /\ analysisRec.rightEyeStats # undefined
        /\ LET avg == RDivInt(RAdd(analysisRec.leftEyeStats.mean,
                                   analysisRec.rightEyeStats.mean), 2)
           IN  RLe(RInt(220), avg) /\ RLe(avg, RInt(260))

C16_Witness ==
    /\ pc = "done"
    /\ SampleRecordAssembled
    /\ result.success
    /\ result.data.fatigueLevel = "moderate"
    /\ Len(result.data.pupilData) = 35
    /\ result.data.frameCount = 51
    /\ result.data.leftEyeStats.min = RInt(225)
    /\ result.data.rightEyeStats.max = RInt(237)
    /\ \E k \in DOMAIN analyses : analyses[k].fatigueLevel = "moderate"

----------------------------------------------------------------------------
(* Claims about the store readers and the saves *)

\* C18: a reader of the store always resolves, and resolves to the empty
\* sequence when get() rejected or the collection does not exist
C18_ReadersAlwaysResolve ==
    readCall.fn # "none" =>
        /\ readAnswer.resolved
        /\ (~readGot.ok \/ ~Exists(readGot.val)) => readAnswer.value = <<>>

\* A date-range reader whose get() rejected while the path holds a record
C18_Witness ==
    /\ readCall.fn = "getAnalysesForDateRange"
    /\ ~readGot.ok
    /\ Exists(analyses)
    /\ readAnswer = Resolved(<<>>)

\* A reader of the eye tests that returned the two records of the path
C18_WitnessRecords ==
    /\ readCall.fn = "getUserEyeTests"
    /\ readGot.ok
    /\ readAnswer.resolved
    /\ Len(readAnswer.value) = 2
    /\ readAnswer.value[1].id # readAnswer.value[2].id

\* Every record a path holds before a step is held unchanged after it
Kept(path, pathAfter) ==
    \A k \in DOMAIN path : k \in DOMAIN pathAfter /\ pathAfter[k] = path[k]

\* C19: a save never overwrites a stored record, and every successful save
\* adds one record to its path, even when two saves read the same
\* millisecond of the clock
C19_SavedRecordsRemain ==
    [][ /\ Kept(analyses, analyses')
        /\ Kept(eyeTests, eyeTests')
        /\ (setCalls'.analyses # setCalls.analyses /\ saveResult'.success)
               => Cardinality(DOMAIN analyses')
                      = Cardinality(DOMAIN analyses) + 1
        /\ (setCalls'.eyeTests # setCalls.eyeTests /\ eyeTestResult'.success)
               => Cardinality(DOMAIN eyeTests')
                      = Cardinality(DOMAIN eyeTests) + 1 ]_vars

----------------------------------------------------------------------------
(* Claims about the subscriptions of the dashboard *)

\* C17: right after a delivery of a subscription is handled, the cached
\* collection of the dashboard is the delivered collection and nothing else,
\* and a collection that does not exist is delivered as the empty sequence
C17_DeliveryReplacesCache ==
    /\ handled = "analyses" => deliveredAnalyses = <<dashAnalyses>>
    /\ handled = "eyeTests" => deliveredEyeTests = <<dashEyeTests>>
    /\ (handled = "analyses" /\ ~Exists(analyses))
           => deliveredAnalyses = << <<>> >>
    /\ (handled = "eyeTests" /\ ~Exists(eyeTests))
           => deliveredEyeTests = << <<>> >>

\* loadAnalyses cached a record, a save replaced it in the store, and the
\* delivery that followed left the other record alone in the cache
C17_Witness ==
    /\ handled = "analyses"
    /\ lpc = "idle"
    /\ Len(allAnalyses) = 1
    /\ Len(dashAnalyses) = 1
    /\ dashAnalyses # allAnalyses
    /\ deliveredAnalyses = <<dashAnalyses>>

\* The first delivery, made while the collection does not exist
C17_WitnessEmpty ==
    /\ handled = "eyeTests"
    /\ ~Exists(eyeTests)
    /\ deliveredEyeTests = << <<>> >>
    /\ dashEyeTests = <<>>

\* Two records delivered after one: the cache holds the two
C17_WitnessGrown ==
    /\ handled = "eyeTests"
    /\ Len(dashEyeTests) = 2
    /\ deliveredEyeTests = <<dashEyeTests>>

----------------------------------------------------------------------------
(* Claims about generatePupilAnalysis *)

\* The endpoints called, in the order of the calls
CalledEndpoints == [i \in 1..Len(gpCalls) |-> gpCalls[i].endpoint]

\* A sequence without the elements that repeat the one before them
RECURSIVE Squeeze(_)
Squeeze(xs) ==
    IF Len(xs) < 2 THEN xs
    ELSE IF xs[1] = xs[2] THEN Squeeze(Tail(xs))
    ELSE <<xs[1]>> \o Squeeze(Tail(xs))

\* The endpoints are tried in the documented order, each after the one
\* before it rejected; the first that resolves is the one reported, and the
\* call fails only after the four rejected
FollowsDocumentedOrder ==
    LET tried == Squeeze(CalledEndpoints)
        last  == gpCalls[Len(gpCalls)]
    IN  /\ tried = SubSeq(DocumentedEndpoints, 1, Len(tried))
        /\ \A i \in 1..(Len(gpCalls) - 1) : gpCalls[i].outcome = "error"
        /\ gpReturn.success <=> last.outcome = "data"
        /\ gpReturn.success
               => gpReturn.data.metadata.workingEndpoint = last.endpoint
        /\ (~gpReturn.success /\ last.outcome = "error")
               => Len(tried) = Len(DocumentedEndpoints)

\* The call has returned after at least one call of client.predict
Predicted(fn) == gpEntry = fn /\ gpc = "done" /\ gpCalls # <<>>

\* C20: generatePupilAnalysis tries the four endpoints in the documented
\* order, the next one only after the previous one failed, returns the
\* result of the first that succeeds with that endpoint as
\* metadata.workingEndpoint, and fails only when the four failed
C20_EndpointsInDocumentedOrder ==
    Predicted("generatePupilAnalysis") => FollowsDocumentedOrder

\* The simulation of the function in the tests does what the document says
SimulationFollowsDocumentedOrder ==
    Predicted("simulateGeneratePupilAnalysis") => FollowsDocumentedOrder

\* The simulation succeeded with the third endpoint
SimulationReachesThirdEndpoint ==
    /\ Predicted("simulateGeneratePupilAnalysis")
    /\ gpReturn.success
    /\ gpReturn.data.metadata.workingEndpoint = "/predict_1"
    /\ Len(gpCalls) = 4

----------------------------------------------------------------------------
(* Claims about the samples and the sections of parseResultData *)

\* C21: every sample parseResultData returns has a frame that is an integer
\* not below 0, the eye left_eye or right_eye and a finite diameter, so the
\* frameCount of returned samples is at least 1
C21_SamplesWellTyped ==
    ppc = "done" =>
        /\ \A i \in 1..Len(pupilData) :
               /\ pupilData[i].frame \in Nat
               /\ pupilData[i].eye \in {left_eye, right_eye}
               /\ pupilData[i].diameter \in Int
               /\ Abs(pupilData[i].diameter) < Infinity
        /\ pupilData # <<>> => FrameCount(pupilData) >= 1

\* The line the loop is about to look at
CurrentLine == Trim(lines[idx])

IsProcessedLine(trimmedLine) ==
    Includes(trimmedLine, sProcessed) /\ Includes(trimmedLine, sFrames)

\* The loop stands between the first Processed-frames line and the marker
InSummary == ppc = "loop" /\ inSummarySection /\ ~inCSVSection

\* The loop looks at a line
Looks == ppc = "loop" /\ idx <= Len(lines) /\ idx' = idx + 1

\* C22 as stated: between the first Processed-frames line and the marker no
\* line gives a sample and only keyword lines are appended to the summary;
\* elsewhere a keyword line is never appended
C22_SummarySectionOnlyKeywords ==
    [][ Looks =>
          /\ InSummary => pupilData' = pupilData
          /\ (InSummary /\ ~IsSummaryLine(CurrentLine)) => summary' = summary
          /\ (~InSummary /\ IsSummaryLine(CurrentLine)) => summary' = summary
      ]_vars

\* C22: the same for the lines that do not contain both Processed and
\* frames; a line that does is appended to the summary wherever it stands
C22_SummarySection ==
    [][ Looks =>
          /\ InSummary => pupilData' = pupilData
          /\ (InSummary /\ ~IsSummaryLine(CurrentLine)
                /\ ~IsProcessedLine(CurrentLine)) => summary' = summary
          /\ (~InSummary /\ IsSummaryLine(CurrentLine)
                /\ ~IsProcessedLine(CurrentLine)) => summary' = summary
          /\ IsProcessedLine(CurrentLine)
                => summary' = summary \o CurrentLine \o <<"\n">>
      ]_vars

\* A row and a keyword line with three fields after the Processed-frames
\* line, then the marker: no sample, and the keyword line in the summary
C22_Witness ==
    /\ ppc = "done"
    /\ report = <<lineProcessed, Row(0, left_eye, 231), lineEyeRow, sCsvMarker>>
    /\ pupilData = <<>>
    /\ summary = lineProcessed \o <<"\n">> \o lineEyeRow

\* A keyword line before the summary opens is looked at as a row
C22_WitnessBefore ==
    /\ ppc = "done"
    /\ report = <<lineMean, lineProcessed>>
    /\ summary = lineProcessed

\* The report holds the marker with a well-formed row before it and one
\* after it
RowsOnBothSides ==
    \E m \in 1..Len(report) :
        /\ report[m] = sCsvMarker
        /\ \E i \in 1..(m - 1) : report[i] \in WellFormedRows
        /\ \E j \in (m + 1)..Len(report) : report[j] \in WellFormedRows

\* The samples of the well-formed rows among the lines ls, in their order
RECURSIVE SamplesOfRows(_)
SamplesOfRows(ls) ==
    IF ls = <<>> THEN <<>>
    ELSE (IF Head(ls) \in WellFormedRows THEN <<ExpectedSample(Head(ls))>>
          ELSE <<>>) \o SamplesOfRows(Tail(ls))

\* Line i of the report stands after a Processed-frames line with no marker
\* before it
InSummaryAt(i) ==
    /\ \E k \in 1..(i - 1) : IsProcessedLine(Trim(report[k]))
    /\ \A k \in 1..(i - 1) : report[k] # sCsvMarker

\* The lines of the report that do not stand in the summary section
RECURSIVE OutsideSummary(_)
OutsideSummary(i) ==
    IF i > Len(report) THEN <<>>
    ELSE (IF InSummaryAt(i) THEN <<>> ELSE <<report[i]>>)
             \o OutsideSummary(i + 1)

\* C23 as stated: in a report with rows before the marker and rows after it,
\* every well-formed row of the report gives a sample
C23_EveryRowKept ==
    (ppc = "done" /\ RowsOnBothSides)
        => pupilData = SamplesOfRows(report)

\* C23: in such a report every well-formed row that does not stand between
\* a Processed-frames line and the marker gives a sample, in the order of the
\* lines, the same row as often as it is listed
C23_RowsOutsideSummaryKept ==
    (ppc = "done" /\ RowsOnBothSides)
        => pupilData = SamplesOfRows(OutsideSummary(1))

\* The same frame before the marker and after it: two samples
C23_Witness ==
    /\ ppc = "done"
    /\ report = <<Row(0, left_eye, 231), lineProcessed, sCsvMarker,
                  Row(0, left_eye, 231)>>
    /\ Len(pupilData) = 2
    /\ pupilData[1] = pupilData[2]

\* A row between the Processed-frames line and the marker is lost
C23_WitnessLost ==
    /\ ppc = "done"
    /\ report = <<Row(0, left_eye, 231), lineProcessed,
                  Row(5, sRightCap, 261), sCsvMarker>>
    /\ Len(pupilData) = 1

----------------------------------------------------------------------------
(* The two flags of parseResultData as a machine of three states *)

\* The state of the three-state machine that a pair of flags stands for
ModeOf(summaryFlag, csvFlag) ==
    IF csvFlag THEN "InCSV"
    ELSE IF summaryFlag THEN "InSummary"
    ELSE "Idle"

\* The transitions of the three-state machine: Idle -> InSummary on a
\* Processed-frames line, Idle or InSummary -> InCSV on the marker, InCSV
\* absorbing
ModeAfter(mode, trimmedLine) ==
    IF mode = "InCSV" THEN "InCSV"
    ELSE IF IsProcessedLine(trimmedLine) THEN "InSummary"
    ELSE IF trimmedLine = sCsvMarker THEN "InCSV"
    ELSE mode

\* One line read by the three-state parser: the rules of the loop with the
\* state in the place of the two flags
ThreeStateLine(m, line) ==
    LET trimmedLine == Trim(line)
        moved == [m EXCEPT !.mode = ModeAfter(m.mode, trimmedLine)]
    IN  IF IsProcessedLine(trimmedLine)
        THEN [moved EXCEPT !.summary = @ \o trimmedLine \o <<"\n">>]
        ELSE IF trimmedLine = sCsvMarker \/ trimmedLine = sCsvHeader
        THEN moved
        ELSE IF m.mode = "InSummary"
        THEN IF IsSummaryLine(trimmedLine)
             THEN [moved EXCEPT !.summary = @ \o trimmedLine \o <<"\n">>]
             ELSE moved
        ELSE IF Includes(trimmedLine, <<",">>)
        THEN [moved EXCEPT !.pupilData = ParseRow(@, trimmedLine)]
        ELSE moved

ThreeStateStart == [mode |-> "Idle", pupilData |-> <<>>, summary |-> <<>>]

\* The three-state parser after the first n lines of ls
RECURSIVE ThreeStateLines(_, _)
ThreeStateLines(ls, n) ==
    IF n = 0 THEN ThreeStateStart
    ELSE CHOOSE after \in { ThreeStateLine(before, ls[n]) :
                              before \in {ThreeStateLines(ls, n - 1)} } : TRUE

\* C24: after every line the two-flag parser and the three-state parser hold
\* the same samples and the same summary, and the flags stand for the state
\* of the machine; so they return the same samples and the same summary
C24_FlagsAreThreeStates ==
    /\ ppc = "loop" =>
         \A m \in {ThreeStateLines(lines, idx - 1)} :
             /\ m.mode = ModeOf(inSummarySection, inCSVSection)
             /\ m.pupilData = pupilData
             /\ m.summary = summary
    /\ ppc = "done" =>
         \A m \in {ThreeStateLines(lines, Len(lines))} :
             /\ m.pupilData = pupilData
             /\ Trim(m.summary) = summary

\* The marker before any Processed-frames line, and a Processed-frames line
\* with a keyword after the marker: both flags are set, the machine is InCSV,
\* the keyword line that follows is not appended and the row is a sample
C24_Witness ==
    /\ ppc = "done"
    /\ report = <<sCsvMarker, lineProcessed, lineMean, Row(0, left_eye, 231)>>
    /\ inSummarySection /\ inCSVSection
    /\ summary = lineProcessed
    /\ Len(pupilData) = 1

\* The three states in turn
C24_WitnessThreeStates ==
    /\ ppc = "done"
    /\ report = <<lineMean, lineProcessed, lineMean, sCsvMarker>>
    /\ summary = lineProcessed \o <<"\n">> \o Trim(lineMean)

----------------------------------------------------------------------------
(* Claims about the two records of one call of processAndSaveAnalysis *)

\* The number of records a store path holds
RecordCount(path) == Cardinality(DOMAIN path)

\* C25: when processAndSaveAnalysis returns success true, one record of the
\* call is under the general-analysis path and one under the eye-test path;
\* when it returns success false, no record of the call is under either path
C25_SuccessIffBothStored ==
    (entry = "analysis" /\ pc = "done") =>
        IF result.success
        THEN RecordCount(analyses) = 1 /\ RecordCount(eyeTests) = 1
        ELSE RecordCount(analyses) = 0 /\ RecordCount(eyeTests) = 0

\* What the call does: its success is the answer of the general-analysis
\* save alone, and the eye-test record is stored whenever its own save
\* succeeded
C25_SuccessIsAnalysisSaved ==
    (entry = "analysis" /\ pc = "done") =>
        /\ RecordCount(analyses) = (IF result.success THEN 1 ELSE 0)
        /\ result.success =>
              RecordCount(eyeTests) = (IF result.eyeTestSaved THEN 1 ELSE 0)

\* A call that answers success false and leaves an eye-test record
C25_FailureWithEyeTestRecord ==
    /\ entry = "analysis" /\ pc = "done"
    /\ result.success = FALSE
    /\ RecordCount(analyses) = 0
    /\ RecordCount(eyeTests) = 1

\* A call that answers success true and leaves no eye-test record
C25_SuccessWithoutEyeTestRecord ==
    /\ entry = "analysis" /\ pc = "done"
    /\ result.success
    /\ RecordCount(analyses) = 1
    /\ RecordCount(eyeTests) = 0

\* The fields the two records of one report have in common
SharedFields ==
    {"leftEyeStats", "rightEyeStats", "summary", "fatigueLevel", "pupilData",
     "frameCount", "settings"}

\* The records a store path holds
Stored(path) == { path[k] : k \in DOMAIN path }

\* C26: the two records one call of processAndSaveAnalysis writes have the
\* same leftEyeStats, rightEyeStats (each omitted in both or in neither),
\* summary, fatigueLevel, pupilData, frameCount and settings, and every
\* field of the analysis record is a field of the eye-test record
C26_EyeTestRecordIsSuperset ==
    entry = "analysis" =>
        \A a \in Stored(analyses) : \A e \in Stored(eyeTests) :
            /\ DOMAIN a \subseteq DOMAIN e
            /\ \A k \in SharedFields :
                  /\ k \in DOMAIN a <=> k \in DOMAIN e
                  /\ k \in DOMAIN a => a[k] = e[k]

\* The two records of a report of the right eye alone, made without
\* settings and without metadata: leftEyeStats and settings are omitted in
\* both, and the eye-test record has metadata of its own
C26_Witness ==
    /\ entry = "analysis" /\ pc = "done"
    /\ report = <<Row(1, right_eye, 228), Row(3, right_eye, 160)>>
    /\ settingsIn = undefined /\ metadataIn = undefined
    /\ \E a \in Stored(analyses) : \E e \in Stored(eyeTests) :
          /\ "leftEyeStats" \notin DOMAIN a \cup DOMAIN e
          /\ "settings" \notin DOMAIN a \cup DOMAIN e
          /\ a.rightEyeStats = e.rightEyeStats
          /\ a.frameCount = 4 /\ e.frameCount = 4
          /\ "metadata" \notin DOMAIN a
          /\ e.metadata = [source |-> "analysis_service",
                           originalAnalysis |-> TRUE]

\* The two records of a call made with a link and metadata: the link is in
\* both, and the source named in the metadata differs
C26_WitnessMetadata ==
    /\ entry = "analysis" /\ pc = "done"
    /\ metadataIn # undefined
    /\ \E a \in Stored(analyses) : \E e \in Stored(eyeTests) :
          /\ a.analysisUrl = e.analysisUrl
          /\ a.metadata.source = "upload"
          /\ e.metadata.source = "analysis_service"

----------------------------------------------------------------------------
(* Claims about the reaction time of the two records *)

\* The least and the greatest reaction time of a level: the base draw with
\* 25 ms less and 50 ms more
ReactionTimeRange(fatigueLevel) ==
    CASE fatigueLevel = "low"      -> 225..350
      [] fatigueLevel = "moderate" -> 275..450
      [] fatigueLevel = "high"     -> 375..600

\* C27: the reaction time of every record assembled or stored, of the
\* general analysis as of the eye test, lies in [225,350] when its level is
\* low, in [275,450] when moderate and in [375,600] when high
C27_ReactionTimeInLevelRange ==
    \A rec \in AssembledRecords \cup StoredRecords :
        rec.reactionTime \in ReactionTimeRange(rec.fatigueLevel)

\* The same of the eye-test records alone
C27_EyeTestReactionTimeInLevelRange ==
    \A rec \in ({eyeTestRec} \ {undefined}) \cup Stored(eyeTests) :
        rec.reactionTime \in ReactionTimeRange(rec.fatigueLevel)

\* The two records of the report of two wide pupils: level low, 200 ms in the
\* analysis record and 225 ms or more in the eye-test record
C27_WidePupil ==
    /\ entry = "analysis" /\ pc = "done"
    /\ report = reportWidePupil
    /\ analysisRec.fatigueLevel = "low"
    /\ analysisRec.reactionTime = 200
    /\ eyeTestRec.reactionTime \in 225..275

----------------------------------------------------------------------------
(* Claims about the counters of the dashboard *)

\* The four counters the dashboard shows
Counters ==
    [todayCount |-> todayCount, weekCount |-> weekCount,
     eyeTestTodayCount |-> eyeTestTodayCount,
     eyeTestWeekCount |-> eyeTestWeekCount]

\* C28: after any deliveries of the two subscriptions and any refreshes the
\* counters are the counts of the cached collections: the cached analyses
\* and the cached eye tests dated today and dated within the last 7 days
C28_CountersAgreeWithCaches ==
    lpc # "off" => Counters = calculateStats(dashAnalyses, dashEyeTests, now)

\* A delivery of the analyses after a refresh that had cached an eye test: the
\* eye test stays cached and its counters are back to 0
C28_EyeTestCountersReset ==
    /\ handled = "analyses"
    /\ Len(dashEyeTests) = 1
    /\ Len(dashAnalyses) = 1
    /\ todayCount = 1 /\ weekCount = 1
    /\ eyeTestTodayCount = 0 /\ eyeTestWeekCount = 0

\* The same of the other subscription
C28_AnalysisCountersReset ==
    /\ handled = "eyeTests"
    /\ Len(dashAnalyses) = 1
    /\ Len(dashEyeTests) = 1
    /\ todayCount = 0 /\ weekCount = 0
    /\ eyeTestTodayCount = 1 /\ eyeTestWeekCount = 1

\* What the handlers keep: right after a refresh the counters are the counts
\* of the two caches
C28_CountersAgreeAfterRefresh ==
    (handled = "loadAnalyses") =>
        Counters = calculateStats(dashAnalyses, dashEyeTests, now)

----------------------------------------------------------------------------
(* Claims about the errors of processAndSaveAnalysis and
   processEyeTestResult *)

\* The messages a call can answer with
ErrorMessages ==
    StoreErrorMessages \cup {NoValidDataResult.error}
        \cup {SplitTypeError(v).message : v \in {undefined, null}}

\* The value a call resolved to is { success: true, data } or
\* { success: false, error } with a message
WellFormedResult(r) ==
    /\ "success" \in DOMAIN r
    /\ IF r.success
       THEN "data" \in DOMAIN r /\ r.data \in AssembledRecords
       ELSE /\ "error" \in DOMAIN r /\ r.error \in ErrorMessages
            /\ "data" \notin DOMAIN r

\* C29: for every resultText, a string or not, and every answer of the
\* store, a call of processAndSaveAnalysis or processEyeTestResult that has
\* returned has resolved to success true with data or to success false with
\* an error message, and a general-analysis save that succeeded gives
\* success true whatever became of the eye-test save
C29_NeverRejects ==
    /\ pc = "done" => WellFormedResult(result)
    /\ (entry = "analysis" /\ pc = "done" /\ saveResult # undefined) =>
          (saveResult.success => result.success)

\* resultText is undefined: the TypeError of split is caught and its message
\* returned, nothing is written
C29_Witness ==
    /\ pc = "done"
    /\ resultTextIn = undefined
    /\ result = [success |-> FALSE,
                 error |-> "Cannot read properties of undefined (reading 'split')"]
    /\ setCalls = [analyses |-> 0, eyeTests |-> 0]

\* The general-analysis save succeeded and the eye-test save was rejected:
\* success true with eyeTestSaved false
C29_WitnessEyeTestSaveFailed ==
    /\ entry = "analysis" /\ pc = "done"
    /\ saveResult # undefined
    /\ saveResult.success
    /\ eyeTestResult = StoreFailure("PERMISSION_DENIED")
    /\ result.success
    /\ result.eyeTestSaved = FALSE

\* The empty text: no valid data
C29_WitnessEmptyText ==
    /\ pc = "done"
    /\ resultTextIn = Given(<<>>)
    /\ result = NoValidDataResult

----------------------------------------------------------------------------
(* Claims about the metadata of generatePupilAnalysis *)

\* What the function answered: the value returned by the callable function,
\* the body of the response of the HTTP function
Answer ==
    IF gpEntry = "generatePupilAnalysisHttp" THEN gpReturn.body ELSE gpReturn

\* generatePupilAnalysis, callable or HTTP, has answered with success
Succeeded ==
    /\ gpEntry \in {"generatePupilAnalysis", "generatePupilAnalysisHttp"}
    /\ gpc = "done"
    /\ "success" \in DOMAIN Answer
    /\ Answer.success

\* The parameters of the last call of client.predict
Sent == gpCalls[Len(gpCalls)].params

\* C30: the metadata of a successful generatePupilAnalysis, callable or
\* HTTP, tells the pupil_selection, the tv_model and the blink_detection
\* that were sent to the endpoint
C30_MetadataEchoesParameters ==
    Succeeded =>
        /\ Answer.data.metadata.pupilSelection = Sent.pupil_selection
        /\ Answer.data.metadata.tvModel = Sent.tv_model
        /\ Answer.data.metadata.blinkDetection = Sent.blink_detection

\* What holds of the two texts
C30_MetadataEchoesSelectionAndModel ==
    Succeeded =>
        /\ Answer.data.metadata.pupilSelection = Sent.pupil_selection
        /\ Answer.data.metadata.tvModel = Sent.tv_model

\* A request with blink_detection false answered by the HTTP function: false
\* is sent and the metadata says true
C30_BlinkDetectionLost ==
    /\ Succeeded
    /\ gpEntry = "generatePupilAnalysisHttp"
    /\ gpData.blink_detection = Given(FALSE)
    /\ Sent.blink_detection = FALSE
    /\ Answer.data.metadata.blinkDetection = TRUE

====
